---------------------------- MODULE Spec2Model ----------------------------
(***************************************************************************)
(* A state-machine model of the IsoCity simulation core                    *)
(* (src/src/lib/simulation.ts).                                            *)
(*                                                                         *)
(* Numbers that are IEEE doubles in the source are kept as fixed-point     *)
(* integers, rounded down:                                                 *)
(*   service coverage, demand, tax rates, quality scores, pollution and    *)
(*   constructionProgress   in hundredths (100 == 1.0),                    *)
(*   age                    in tenths     (10  == one tick of an occupied  *)
(*                                         building, 1 == 0.1),            *)
(*   fireProgress           in thirds     (2   == the 2/3 added per tick). *)
(* A call of Math.random() is a choice among the outcomes it can have.     *)
(***************************************************************************)
EXTENDS Integers, Sequences, FiniteSets, TLC

VARIABLES
  grid,               \* state.grid: grid[y][x] is a Tile
  gridSize,           \* state.gridSize
  year, month, day, hour, tick,       \* the simulated clock of the state
  taxRate, effectiveTaxRate,          \* hundredths
  stats,              \* state.stats
  budget,             \* state.budget: the eight category objects
  services,           \* state.services
  notifications, history, advisorMessages,
  disastersEnabled,
  roadAccessVisited,  \* module-level Uint8Array: the set of indices holding 1
  pc,                 \* "idle", or "scan" while a simulateTick call is running
  pos,                \* index y * size + x of the next tile of the scan
  newGrid,            \* simulateTick's newGrid (rows shared with grid until copied)
  modifiedRows,       \* simulateTick's modifiedRows
  tickServices,       \* the ServiceCoverage computed when the tick began
  call,               \* the last operation called, with its arguments
  saved,              \* a deep copy of the input of that call, taken before it
  inputNow,           \* the same parts of the input objects, read after the call
  ret                 \* what the call returned (pure functions)

clockVars == <<year, month, day, hour, tick>>
econVars  == <<taxRate, effectiveTaxRate, stats, budget>>
logVars   == <<notifications, history, advisorMessages>>
scanVars  == <<pc, pos, newGrid, modifiedRows, tickServices>>
obsVars   == <<call, saved, inputNow, ret>>
vars == <<grid, gridSize, clockVars, econVars, services, logVars,
          disastersEnabled, roadAccessVisited, scanVars, obsVars>>

---------------------------------------------------------------------------
(* Arithmetic helpers *)

Min(a, b) == IF a < b THEN a ELSE b
Max(a, b) == IF a > b THEN a ELSE b
Abs(a) == IF a < 0 THEN 0 - a ELSE a

\* Math.floor(n / d) for an integer n and d > 0
FloorDiv(n, d) == n \div d

RECURSIVE ISqrtIter(_, _, _)
ISqrtIter(n, lo, hi) ==
  IF lo >= hi THEN lo
  ELSE LET mid == (lo + hi + 1) \div 2
       IN IF mid * mid <= n THEN ISqrtIter(n, mid, hi)
                            ELSE ISqrtIter(n, lo, mid - 1)

\* Math.floor(Math.sqrt(n))
ISqrt(n) == ISqrtIter(n, 0, Min(n, 46340))

Range(f) == {f[i] : i \in DOMAIN f}

---------------------------------------------------------------------------
(* 1. Constants *)

MAX_BRIDGE_SPAN == 10
BRIDGE_LARGE_THRESHOLD == 5
SERVICE_MAX_LEVEL == 5
SERVICE_UPGRADE_COST_BASE == 2
QUEUE_LENGTH == 768
VISITED_LENGTH == 16384

NO_CONSTRUCTION_TYPES == {"grass", "empty", "water", "road", "bridge", "tree"}
WATERFRONT_BUILDINGS == {"marina_docks_small", "pier_large"}
MERGEABLE_TILE_TYPES == {"grass", "tree"}

CONSOLIDATABLE_BUILDINGS(zone) ==
  CASE zone = "residential" -> {"house_small", "house_medium"}
    [] zone = "commercial"  -> {"shop_small", "shop_medium"}
    [] zone = "industrial"  -> {"factory_small"}
    [] OTHER                -> {}

BridgeVariants(bridgeType) ==
  CASE bridgeType = "small"      -> 3
    [] bridgeType = "medium"     -> 3
    [] bridgeType = "large"      -> 2
    [] bridgeType = "suspension" -> 2

Size2 == {"power_plant", "hospital", "school", "mansion", "apartment_low",
          "apartment_high", "office_low", "office_high", "factory_medium",
          "warehouse", "city_hall", "playground_large", "baseball_field_small",
          "football_field", "mini_golf_course", "go_kart_track", "amphitheater",
          "greenhouse_garden", "marina_docks_small", "roller_coaster_small",
          "mountain_lodge", "rail_station"}
Size3 == {"stadium", "museum", "university", "space_program", "park_large",
          "mall", "factory_large", "baseball_stadium", "mountain_trailhead"}
Size4 == {"airport", "amusement_park"}

\* getBuildingSize: BUILDING_SIZES[type] || {width: 1, height: 1}
getBuildingSize(buildingType) ==
  LET n == CASE buildingType \in Size2 -> 2
             [] buildingType \in Size3 -> 3
             [] buildingType \in Size4 -> 4
             [] OTHER -> 1
  IN [width |-> n, height |-> n]

SERVICE_BUILDING_TYPES ==
  {"police_station", "fire_station", "hospital", "school", "university",
   "power_plant", "water_tower"}

\* SERVICE_CONFIG[type].range
ServiceRange(buildingType) ==
  CASE buildingType = "police_station" -> 13
    [] buildingType = "fire_station"   -> 18
    [] buildingType = "hospital"       -> 24
    [] buildingType = "school"         -> 11
    [] buildingType = "university"     -> 19
    [] buildingType = "power_plant"    -> 15
    [] buildingType = "water_tower"    -> 12

\* SERVICE_CONFIG[type].type
ServiceKind(buildingType) ==
  CASE buildingType = "police_station" -> "police"
    [] buildingType = "fire_station"   -> "fire"
    [] buildingType = "hospital"       -> "health"
    [] buildingType = "school"         -> "education"
    [] buildingType = "university"     -> "education"
    [] OTHER                           -> "none"

\* TOOL_INFO[type].cost of the service buildings (?? 0 for anything else)
ToolCost(buildingType) ==
  CASE buildingType = "police_station" -> 500
    [] buildingType = "fire_station"   -> 500
    [] buildingType = "hospital"       -> 1000
    [] buildingType = "school"         -> 400
    [] buildingType = "university"     -> 2000
    [] buildingType = "water_tower"    -> 1000
    [] buildingType = "power_plant"    -> 3000
    [] OTHER                           -> 0

---------------------------------------------------------------------------
(* 2. Basic helper functions *)

\* createBuilding(type); the optional fields (flipped, bridge*) are absent in the
\* source and hold "none"/0/FALSE here
createBuilding(type) ==
  [type |-> type,
   level |-> IF type \in {"grass", "empty", "water"} THEN 0 ELSE 1,
   population |-> 0, jobs |-> 0, powered |-> FALSE, watered |-> FALSE,
   onFire |-> FALSE, fireProgress |-> 0, age |-> 0,
   constructionProgress |-> IF type \in NO_CONSTRUCTION_TYPES THEN 10000 ELSE 0,
   abandoned |-> FALSE, flipped |-> FALSE,
   bridgeType |-> "none", bridgeOrientation |-> "none", bridgeVariant |-> 0,
   bridgePosition |-> "none", bridgeIndex |-> 0, bridgeSpan |-> 0,
   bridgeTrackType |-> "none"]

\* createTile(x, y, buildingType)
createTile(x, y, buildingType) ==
  [x |-> x, y |-> y, zone |-> "none", building |-> createBuilding(buildingType),
   landValue |-> 50, pollution |-> 0, pollutionType |-> "none",
   crime |-> 0, traffic |-> 0, hasSubway |-> FALSE, hasRailOverlay |-> FALSE]

isStarterBuilding(x, y, buildingType) ==
  buildingType \in {"house_small", "shop_small", "animal_pens_farm",
                    "greenhouse_garden", "factory_small"}

requiresWaterAdjacency(buildingType) == buildingType \in WATERFRONT_BUILDINGS

Coords(size) == 0 .. (size - 1)
InGrid(x, y, size) == x >= 0 /\ x < size /\ y >= 0 /\ y < size

\* createServiceCoverage(size)
createServiceCoverage(size) ==
  LET zero == [y \in Coords(size) |-> [x \in Coords(size) |-> 0]]
      no   == [y \in Coords(size) |-> [x \in Coords(size) |-> FALSE]]
  IN [police |-> zero, fire |-> zero, health |-> zero, education |-> zero,
      power |-> no, water |-> no]

---------------------------------------------------------------------------
(* 3. calculateServiceCoverage *)

\* Math.floor(baseRange * (1 + (level - 1) * SERVICE_RANGE_INCREASE_PER_LEVEL));
\* the doubles give the same floor as the exact quotient for every configured
\* range and every level 0..6
EffectiveRangeShrinking(buildingType, level) ==
  FloorDiv(ServiceRange(buildingType) * (10 - (level - 1) * 2), 10)
EffectiveRange(buildingType, level) ==
  FloorDiv(ServiceRange(buildingType) * (10 + (level - 1) * 2), 10)

\* the first loop: the service buildings in scan order (rows, then columns)
RECURSIVE RowServiceBuildings(_, _, _, _)
RowServiceBuildings(g, size, y, x) ==
  IF x >= size THEN <<>>
  ELSE LET b == g[y][x].building
           rest == RowServiceBuildings(g, size, y, x + 1)
       IN IF b.type \notin SERVICE_BUILDING_TYPES THEN rest
          ELSE IF b.constructionProgress < 10000 THEN rest
          ELSE IF b.abandoned THEN rest
          ELSE <<[x |-> x, y |-> y, type |-> b.type, level |-> b.level]>> \o rest

RECURSIVE CollectServiceBuildings(_, _, _)
CollectServiceBuildings(g, size, y) ==
  IF y >= size THEN <<>>
  ELSE RowServiceBuildings(g, size, y, 0) \o CollectServiceBuildings(g, size, y + 1)

\* dx * dx + dy * dy <= rangeSquared
WithinSquare(dx, dy, rangeSquared) == TRUE
WithinRange(dx, dy, rangeSquared) == dx * dx + dy * dy <= rangeSquared

\* the body of the second loop with line 258 storing the building's coverage
\* instead of adding it
ApplyServiceBuildingOverwriting(s, size, b) ==
  LET range == EffectiveRange(b.type, b.level)
      rangeSquared == range * range
      minY == Max(0, b.y - range)
      maxY == Min(size - 1, b.y + range)
      minX == Max(0, b.x - range)
      maxX == Min(size - 1, b.x + range)
      InBox(nx, ny) == ny >= minY /\ ny <= maxY /\ nx >= minX /\ nx <= maxX
      DistSquared(nx, ny) == (nx - b.x) * (nx - b.x) + (ny - b.y) * (ny - b.y)
      Hit(nx, ny) == InBox(nx, ny) /\ WithinRange(nx - b.x, ny - b.y, rangeSquared)
      \* Math.max(0, (1 - distance / range) * 100), in hundredths
      Coverage(nx, ny) ==
        Max(0, FloorDiv((range * 100 - ISqrt(DistSquared(nx, ny) * 10000)) * 100,
                        range))
      Bool(field) ==
        [ny \in Coords(size) |-> [nx \in Coords(size) |->
           IF Hit(nx, ny) THEN TRUE ELSE field[ny][nx]]]
      Num(field) ==
        [ny \in Coords(size) |-> [nx \in Coords(size) |->
           IF Hit(nx, ny) THEN Min(10000, Coverage(nx, ny))
           ELSE field[ny][nx]]]
      kind == ServiceKind(b.type)
  IN CASE b.type = "power_plant" -> [s EXCEPT !.power = Bool(s.power)]
       [] b.type = "water_tower" -> [s EXCEPT !.water = Bool(s.water)]
       [] kind = "police"    -> [s EXCEPT !.police = Num(s.police)]
       [] kind = "fire"      -> [s EXCEPT !.fire = Num(s.fire)]
       [] kind = "health"    -> [s EXCEPT !.health = Num(s.health)]
       [] kind = "education" -> [s EXCEPT !.education = Num(s.education)]
       [] OTHER -> s

\* the body of the second loop for one building
ApplyServiceBuilding(s, size, b) ==
  LET range == EffectiveRange(b.type, b.level)
      rangeSquared == range * range
      minY == Max(0, b.y - range)
      maxY == Min(size - 1, b.y + range)
      minX == Max(0, b.x - range)
      maxX == Min(size - 1, b.x + range)
      InBox(nx, ny) == ny >= minY /\ ny <= maxY /\ nx >= minX /\ nx <= maxX
      DistSquared(nx, ny) == (nx - b.x) * (nx - b.x) + (ny - b.y) * (ny - b.y)
      Hit(nx, ny) == InBox(nx, ny) /\ WithinRange(nx - b.x, ny - b.y, rangeSquared)
      \* Math.max(0, (1 - distance / range) * 100), in hundredths
      Coverage(nx, ny) ==
        Max(0, FloorDiv((range * 100 - ISqrt(DistSquared(nx, ny) * 10000)) * 100,
                        range))
      Bool(field) ==
        [ny \in Coords(size) |-> [nx \in Coords(size) |->
           IF Hit(nx, ny) THEN TRUE ELSE field[ny][nx]]]
      Num(field) ==
        [ny \in Coords(size) |-> [nx \in Coords(size) |->
           IF Hit(nx, ny) THEN Min(10000, field[ny][nx] + Coverage(nx, ny))
           ELSE field[ny][nx]]]
      kind == ServiceKind(b.type)
  IN CASE b.type = "power_plant" -> [s EXCEPT !.power = Bool(s.power)]
       [] b.type = "water_tower" -> [s EXCEPT !.water = Bool(s.water)]
       [] kind = "police"    -> [s EXCEPT !.police = Num(s.police)]
       [] kind = "fire"      -> [s EXCEPT !.fire = Num(s.fire)]
       [] kind = "health"    -> [s EXCEPT !.health = Num(s.health)]
       [] kind = "education" -> [s EXCEPT !.education = Num(s.education)]
       [] OTHER -> s

RECURSIVE ApplyServiceBuildings(_, _, _, _)
ApplyServiceBuildings(s, size, bs, i) ==
  IF i > Len(bs) THEN s
  ELSE ApplyServiceBuildings(ApplyServiceBuilding(s, size, bs[i]), size, bs, i + 1)

calculateServiceCoverage(g, size) ==
  ApplyServiceBuildings(createServiceCoverage(size), size,
                        CollectServiceBuildings(g, size, 0), 1)

---------------------------------------------------------------------------
(* The building catalog (types/buildings.ts) is not part of the simulation  *)
(* core; the entries the model's cities use are listed here.                *)

NoStats == [defined |-> FALSE, maxPop |-> 0, maxJobs |-> 0, pollution |-> 0,
            landValue |-> 0]
StatsOf(p, j, pol, lv) ==
  [defined |-> TRUE, maxPop |-> p, maxJobs |-> j, pollution |-> pol,
   landValue |-> lv]

BUILDING_STATS(type) ==
  CASE type = "house_small"    -> StatsOf(6, 0, 0, 10)
    [] type = "house_medium"   -> StatsOf(14, 0, 0, 18)
    [] type = "mansion"        -> StatsOf(18, 0, 0, 60)
    [] type = "apartment_low"  -> StatsOf(120, 0, 2, 40)
    [] type = "apartment_high" -> StatsOf(260, 0, 3, 55)
    [] type = "shop_small"     -> StatsOf(0, 10, 1, 15)
    [] type = "shop_medium"    -> StatsOf(0, 28, 2, 25)
    [] type = "office_low"     -> StatsOf(0, 90, 2, 40)
    [] type = "office_high"    -> StatsOf(0, 210, 3, 55)
    [] type = "mall"           -> StatsOf(0, 240, 6, 70)
    [] type = "factory_small"  -> StatsOf(0, 40, 15, -5)
    [] type = "factory_medium" -> StatsOf(0, 90, 28, -10)
    [] type = "warehouse"      -> StatsOf(0, 60, 18, -6)
    [] type = "factory_large"  -> StatsOf(0, 180, 55, -18)
    [] type = "road"           -> StatsOf(0, 0, 2, 0)
    [] type = "tree"           -> StatsOf(0, 0, -5, 2)
    [] type = "park"           -> StatsOf(0, 2, -10, 20)
    [] type = "park_large"     -> StatsOf(0, 6, -25, 50)
    [] type = "police_station" -> StatsOf(0, 20, 0, 15)
    [] type = "fire_station"   -> StatsOf(0, 20, 0, 10)
    [] type = "hospital"       -> StatsOf(0, 80, 0, 25)
    [] type = "school"         -> StatsOf(0, 25, 0, 15)
    [] type = "university"     -> StatsOf(0, 100, 0, 35)
    [] type = "power_plant"    -> StatsOf(0, 30, 30, -20)
    [] type = "water_tower"    -> StatsOf(0, 5, 0, 5)
    [] type \in {"grass", "empty", "water", "bridge", "rail"} -> StatsOf(0, 0, 0, 0)
    [] OTHER -> NoStats

RESIDENTIAL_BUILDINGS ==
  <<"house_small", "house_medium", "mansion", "apartment_low", "apartment_high">>
COMMERCIAL_BUILDINGS ==
  <<"shop_small", "shop_medium", "office_low", "office_high", "mall">>
INDUSTRIAL_BUILDINGS ==
  <<"factory_small", "factory_medium", "warehouse", "factory_large", "factory_large">>

---------------------------------------------------------------------------
(* 3b. Footprints *)

\* the tiles (x, y) of the w * h footprint at (originX, originY)
Footprint(originX, originY, w, h) ==
  {<<originX + dx, originY + dy>> : dx \in 0 .. (w - 1), dy \in 0 .. (h - 1)}

\* applyBuildingFootprint, as the grid it leaves; services is a ServiceCoverage or
\* the record [none |-> TRUE] when the argument is not passed
applyBuildingFootprint(g, originX, originY, buildingType, zone, level, svc) ==
  LET size == getBuildingSize(buildingType)
      bstats == BUILDING_STATS(buildingType)
      anchor == [createBuilding(buildingType) EXCEPT
                   !.level = level, !.age = 0,
                   !.powered = IF "none" \in DOMAIN svc THEN @
                               ELSE svc.power[originY][originX],
                   !.watered = IF "none" \in DOMAIN svc THEN @
                               ELSE svc.water[originY][originX]]
      cells == Footprint(originX, originY, size.width, size.height)
  IN [y \in DOMAIN g |-> [x \in DOMAIN g[y] |->
        IF <<x, y>> \notin cells THEN g[y][x]
        ELSE IF x = originX /\ y = originY
          THEN [g[y][x] EXCEPT !.building = anchor, !.zone = zone,
                               !.pollution = bstats.pollution * 100]
          ELSE [g[y][x] EXCEPT !.building = createBuilding("empty"), !.zone = zone,
                               !.pollution = 0]]]

\* canPlaceMultiTileBuilding
canPlaceMultiTileBuildingOnAnything(g, x, y, width, height, size) ==
  /\ ~(x + width > size \/ y + height > size)
  /\ \A c \in Footprint(x, y, width, height) : InGrid(c[1], c[2], size)
canPlaceMultiTileBuilding(g, x, y, width, height, size) ==
  /\ ~(x + width > size \/ y + height > size)
  /\ \A c \in Footprint(x, y, width, height) :
       /\ InGrid(c[1], c[2], size)
       /\ g[c[2]][c[1]].building.type \in {"grass", "tree"}

\* findBuildingOrigin; [found |-> FALSE] stands for null
NotStructure == {"empty", "grass", "water", "road", "bridge", "rail", "tree"}

NoOrigin == [found |-> FALSE, originX |-> 0, originY |-> 0, buildingType |-> "none"]

RECURSIVE FindParent(_, _, _, _, _)
FindParent(g, x, y, size, i) ==
  IF i >= 16 THEN NoOrigin
  ELSE LET dy == i \div 4
           dx == i % 4
           checkX == x - dx
           checkY == y - dy
           hit == /\ checkX >= 0 /\ checkY >= 0 /\ checkX < size /\ checkY < size
                  /\ g[checkY][checkX].building.type \notin NotStructure
                  /\ LET sz == getBuildingSize(g[checkY][checkX].building.type)
                     IN /\ x >= checkX /\ x < checkX + sz.width
                        /\ y >= checkY /\ y < checkY + sz.height
       IN IF hit THEN [found |-> TRUE, originX |-> checkX, originY |-> checkY,
                       buildingType |-> g[checkY][checkX].building.type]
          ELSE FindParent(g, x, y, size, i + 1)

findBuildingOriginNoParent(g, x, y, size) ==
  IF ~InGrid(x, y, size) THEN NoOrigin
  ELSE LET t == g[y][x].building.type
       IN IF t \notin NotStructure /\ getBuildingSize(t).width > 1
            THEN [found |-> TRUE, originX |-> x, originY |-> y, buildingType |-> t]
            ELSE NoOrigin
findBuildingOrigin(g, x, y, size) ==
  IF ~InGrid(x, y, size) THEN NoOrigin
  ELSE LET t == g[y][x].building.type
       IN IF t \notin NotStructure
            THEN IF getBuildingSize(t).width > 1 \/ getBuildingSize(t).height > 1
                   THEN [found |-> TRUE, originX |-> x, originY |-> y,
                         buildingType |-> t]
                   ELSE NoOrigin
          ELSE IF t = "empty" THEN FindParent(g, x, y, size, 0)
          ELSE NoOrigin

---------------------------------------------------------------------------
(* 4. State creation *)

createInitialBudget ==
  LET cat == [funding |-> 100, cost |-> 0]
  IN [police |-> cat, fire |-> cat, health |-> cat, education |-> cat,
      transportation |-> cat, parks |-> cat, power |-> cat, water |-> cat]

createInitialStats ==
  [population |-> 0, jobs |-> 0, money |-> 100000, income |-> 0, expenses |-> 0,
   happiness |-> 5000, health |-> 5000, education |-> 5000, safety |-> 5000,
   environment |-> 7500,
   demand |-> [residential |-> 5000, commercial |-> 3000, industrial |-> 4000]]

\* a size * size grid of createTile(x, y) tiles
GrassGrid(size) ==
  [y \in Coords(size) |-> [x \in Coords(size) |-> createTile(x, y, "grass")]]

\* the parts of a GameState that an operation receives by reference
Snapshot(g, b, st, n, h) ==
  [grid |-> g, budget |-> b, stats |-> st, notifications |-> n, history |-> h]

\* a GameState as createInitialGameState lays it out, with the grid, the settings
\* (disasters, tax rates) and the demand given
StateWith(g, size, disasters, rate, effectiveRate, demand) ==
  /\ grid = g
  /\ gridSize = size
  /\ year = 2024 /\ month = 1 /\ day = 1 /\ hour = 12 /\ tick = 0
  /\ taxRate = rate /\ effectiveTaxRate = effectiveRate
  /\ stats = [createInitialStats EXCEPT !.demand = demand]
  /\ budget = createInitialBudget
  /\ services = createServiceCoverage(size)
  /\ notifications = <<>> /\ history = <<>> /\ advisorMessages = <<>>
  /\ disastersEnabled = disasters
  /\ roadAccessVisited = {}
  /\ pc = "idle" /\ pos = 0 /\ newGrid = <<>> /\ modifiedRows = {}
  /\ tickServices = <<>>
  /\ call = [op |-> "none"]
  /\ saved = <<>>
  /\ inputNow = <<>>
  /\ ret = "none"

\* createInitialGameState, with the terrain g in place of generateTerrain's
InitialGameState(g, size) ==
  StateWith(g, size, TRUE, 900, 900, createInitialStats.demand)

---------------------------------------------------------------------------
(* 5. upgradeServiceBuilding *)

\* Math.pow(2, n)
RECURSIVE Pow2(_)
Pow2(n) == IF n <= 0 THEN 1 ELSE 2 * Pow2(n - 1)

\* the whole function: null leaves the state as it is
upgradeServiceBuildingOnCredit(x, y) ==
  LET origin == findBuildingOrigin(grid, x, y, gridSize)
      originX == IF origin.found THEN origin.originX ELSE x
      originY == IF origin.found THEN origin.originY ELSE y
      b == grid[originY][originX].building
      currentLevel == IF b.level = 0 THEN 1 ELSE b.level
      upgradeCost == ToolCost(b.type) * Pow2(currentLevel)
      isNull == \/ ~InGrid(x, y, gridSize)
                \/ b.type \notin SERVICE_BUILDING_TYPES
                \/ b.constructionProgress < 10000
                \/ b.abandoned
                \/ currentLevel >= SERVICE_MAX_LEVEL
      upgraded == [grid EXCEPT ![originY][originX].building.level =
                     Min(SERVICE_MAX_LEVEL, currentLevel + 1)]
  IN /\ pc = "idle"
     /\ call' = [op |-> "upgradeServiceBuilding", x |-> x, y |-> y]
     /\ saved' = Snapshot(grid, budget, stats, notifications, history)
     /\ inputNow' = Snapshot(grid, budget, stats, notifications, history)
     /\ IF isNull
          THEN /\ ret' = "null"
               /\ UNCHANGED <<grid, stats, services>>
          ELSE /\ ret' = "state"
               /\ grid' = upgraded
               /\ stats' = [stats EXCEPT !.money = @ - upgradeCost]
               /\ services' = calculateServiceCoverage(upgraded, gridSize)
     /\ UNCHANGED <<gridSize, clockVars, taxRate, effectiveTaxRate, budget, logVars,
                    disastersEnabled, roadAccessVisited, scanVars>>
\* upgradeServiceBuilding with line 1521 writing the level of the tile of the call
\* instead of the origin's
upgradeServiceBuildingAtTile(x, y) ==
  LET origin == findBuildingOrigin(grid, x, y, gridSize)
      originX == IF origin.found THEN origin.originX ELSE x
      originY == IF origin.found THEN origin.originY ELSE y
      b == grid[originY][originX].building
      currentLevel == IF b.level = 0 THEN 1 ELSE b.level
      upgradeCost == ToolCost(b.type) * Pow2(currentLevel)
      isNull == \/ ~InGrid(x, y, gridSize)
                \/ b.type \notin SERVICE_BUILDING_TYPES
                \/ b.constructionProgress < 10000
                \/ b.abandoned
                \/ currentLevel >= SERVICE_MAX_LEVEL
                \/ stats.money < upgradeCost
      upgraded == [grid EXCEPT ![y][x].building.level =
                     Min(SERVICE_MAX_LEVEL, currentLevel + 1)]
  IN /\ pc = "idle"
     /\ call' = [op |-> "upgradeServiceBuilding", x |-> x, y |-> y]
     /\ saved' = Snapshot(grid, budget, stats, notifications, history)
     /\ inputNow' = Snapshot(grid, budget, stats, notifications, history)
     /\ IF isNull
          THEN /\ ret' = "null"
               /\ UNCHANGED <<grid, stats, services>>
          ELSE /\ ret' = "state"
               /\ grid' = upgraded
               /\ stats' = [stats EXCEPT !.money = @ - upgradeCost]
               /\ services' = calculateServiceCoverage(upgraded, gridSize)
     /\ UNCHANGED <<gridSize, clockVars, taxRate, effectiveTaxRate, budget, logVars,
                    disastersEnabled, roadAccessVisited, scanVars>>
upgradeServiceBuilding(x, y) ==
  LET origin == findBuildingOrigin(grid, x, y, gridSize)
      originX == IF origin.found THEN origin.originX ELSE x
      originY == IF origin.found THEN origin.originY ELSE y
      b == grid[originY][originX].building
      currentLevel == IF b.level = 0 THEN 1 ELSE b.level
      upgradeCost == ToolCost(b.type) * Pow2(currentLevel)
      isNull == \/ ~InGrid(x, y, gridSize)
                \/ b.type \notin SERVICE_BUILDING_TYPES
                \/ b.constructionProgress < 10000
                \/ b.abandoned
                \/ currentLevel >= SERVICE_MAX_LEVEL
                \/ stats.money < upgradeCost
      upgraded == [grid EXCEPT ![originY][originX].building.level =
                     Min(SERVICE_MAX_LEVEL, currentLevel + 1)]
  IN /\ pc = "idle"
     /\ call' = [op |-> "upgradeServiceBuilding", x |-> x, y |-> y]
     /\ saved' = Snapshot(grid, budget, stats, notifications, history)
     /\ inputNow' = Snapshot(grid, budget, stats, notifications, history)
     /\ IF isNull
          THEN /\ ret' = "null"
               /\ UNCHANGED <<grid, stats, services>>
          ELSE /\ ret' = "state"
               /\ grid' = upgraded
               /\ stats' = [stats EXCEPT !.money = @ - upgradeCost]
               /\ services' = calculateServiceCoverage(upgraded, gridSize)
     /\ UNCHANGED <<gridSize, clockVars, taxRate, effectiveTaxRate, budget, logVars,
                    disastersEnabled, roadAccessVisited, scanVars>>

---------------------------------------------------------------------------
(* Service coverage of cities with up to two service buildings *)

CoverageSize == 13
CoverageSites == {<<0, 0>>, <<6, 6>>, <<11, 3>>}
CoverageTypes == {"power_plant", "water_tower", "police_station", "school"}
CoverageConditions == {"complete", "construction", "abandoned"}

\* a service building as placeBuilding lays it out, later built, upgraded or left
WithServiceBuilding(g, site, type, condition, level) ==
  LET laid == IF getBuildingSize(type).width > 1
                THEN applyBuildingFootprint(g, site[1], site[2], type, "none", 1,
                                            [none |-> TRUE])
                ELSE [g EXCEPT ![site[2]][site[1]].building = createBuilding(type),
                               ![site[2]][site[1]].zone = "none"]
  IN [laid EXCEPT ![site[2]][site[1]].building =
        [@ EXCEPT !.level = level,
                  !.constructionProgress =
                     IF condition = "construction" THEN 4000 ELSE 10000,
                  !.abandoned = (condition = "abandoned")]]

CoverageGrids ==
  LET one == {WithServiceBuilding(GrassGrid(CoverageSize), s, t, c, 1) :
                s \in CoverageSites, t \in CoverageTypes, c \in CoverageConditions}
      two == {WithServiceBuilding(
                WithServiceBuilding(GrassGrid(CoverageSize), <<0, 0>>, t1, c1, 3),
                <<6, 6>>, t2, c2, 1) :
                t1 \in {"power_plant", "water_tower", "police_station"},
                c1 \in {"complete", "abandoned"},
                t2 \in CoverageTypes, c2 \in {"complete", "construction"}}
  IN one \cup two

\* the tiles a player can click: every tile of a building, one grass tile and one
\* position outside the grid
UpgradeProbes ==
  {<<x, y>> \in Coords(gridSize) \X Coords(gridSize) :
     grid[y][x].building.type # "grass"} \cup {<<gridSize, 0>>, <<1, gridSize - 1>>}

\* a call of calculateServiceCoverage(state.grid, state.gridSize)
CallCalculateServiceCoverage ==
  /\ pc = "idle"
  /\ call' = [op |-> "calculateServiceCoverage"]
  /\ ret' = calculateServiceCoverage(grid, gridSize)
  /\ UNCHANGED <<saved, inputNow>>
  /\ UNCHANGED <<grid, gridSize, clockVars, econVars, services, logVars,
                 disastersEnabled, roadAccessVisited, scanVars>>

InitCoverage == \E g \in CoverageGrids : InitialGameState(g, CoverageSize)

NextCoverage ==
  \/ \E p \in UpgradeProbes : upgradeServiceBuilding(p[1], p[2])
  \/ CallCalculateServiceCoverage

SpecCoverage == InitCoverage /\ [][NextCoverage]_vars

AllTiles == Coords(gridSize) \X Coords(gridSize)

\* no value of coverage b is below its value in coverage a
CoverageNotLower(a, b) ==
  \A t \in AllTiles :
    LET x == t[1]
        y == t[2]
    IN /\ b.police[y][x] >= a.police[y][x]
       /\ b.fire[y][x] >= a.fire[y][x]
       /\ b.health[y][x] >= a.health[y][x]
       /\ b.education[y][x] >= a.education[y][x]
       /\ a.power[y][x] => b.power[y][x]
       /\ a.water[y][x] => b.water[y][x]

Upgraded == call.op = "upgradeServiceBuilding" /\ ret = "state"

\* the two grids differ in the level of one completed service building, raised
RaisedOneLevel(before, after) ==
  \E t \in AllTiles :
    LET b == before[t[2]][t[1]].building
    IN /\ b.type \in SERVICE_BUILDING_TYPES
       /\ b.constructionProgress = 10000 /\ ~b.abandoned
       /\ b.level \in 1 .. (SERVICE_MAX_LEVEL - 1)
       /\ after = [before EXCEPT ![t[2]][t[1]].building.level = b.level + 1]

\* C7: whenever two grids differ only in the level of one completed, non-abandoned
\* service building, raised from a level in 1..4 to the next, no tile's police,
\* fire, health or education value is lower, and no powered or watered tile is
\* unpowered or unwatered, in calculateServiceCoverage of the raised grid.
C7_CoverageMonotonicInLevel ==
  (Upgraded /\ RaisedOneLevel(saved.grid, grid)) =>
     CoverageNotLower(calculateServiceCoverage(saved.grid, gridSize),
                      calculateServiceCoverage(grid, gridSize))

\* an upgrade that extended the power coverage, or raised a police value
C7_Witness ==
  /\ Upgraded /\ RaisedOneLevel(saved.grid, grid)
  /\ \E t \in AllTiles :
       LET before == calculateServiceCoverage(saved.grid, gridSize)
           after  == calculateServiceCoverage(grid, gridSize)
       IN \/ ~before.power[t[2]][t[1]] /\ after.power[t[2]][t[1]]
          \/ after.police[t[2]][t[1]] > before.police[t[2]][t[1]]

\* the effective range the specification gives a utility building
ClaimedUtilityRange(type, level) ==
  LET baseRange == IF type = "power_plant" THEN 15 ELSE 12
  IN (baseRange * (10 + 2 * (level - 1))) \div 10

\* tile (x, y) lies in the circle of a completed, non-abandoned building of the type
InSomeCircle(g, x, y, type) ==
  \E t \in AllTiles :
    LET b == g[t[2]][t[1]].building
        r == ClaimedUtilityRange(type, b.level)
    IN /\ b.type = type
       /\ b.constructionProgress = 10000
       /\ ~b.abandoned
       /\ (x - t[1]) * (x - t[1]) + (y - t[2]) * (y - t[2]) <= r * r

\* C8: in the result of calculateServiceCoverage a tile is powered (watered) exactly
\* when a completed, non-abandoned power_plant (water_tower) lies within its
\* effective range floor(baseRange * (1 + (level - 1) * 0.2)) of it.
C8_UnionOfCircles ==
  call.op = "calculateServiceCoverage" =>
    \A t \in AllTiles :
      /\ ret.power[t[2]][t[1]] <=> InSomeCircle(grid, t[1], t[2], "power_plant")
      /\ ret.water[t[2]][t[1]] <=> InSomeCircle(grid, t[1], t[2], "water_tower")

\* a result with a watered and an unwatered tile, for a city whose tower has been
\* upgraded and that also holds a plant or tower under construction or abandoned
C8_Witness ==
  /\ call.op = "calculateServiceCoverage"
  /\ \E t \in AllTiles : ret.water[t[2]][t[1]]
  /\ \E t \in AllTiles : ~ret.water[t[2]][t[1]]
  /\ \E t \in AllTiles : /\ grid[t[2]][t[1]].building.type = "water_tower"
                         /\ grid[t[2]][t[1]].building.level > 1
                         /\ grid[t[2]][t[1]].building.constructionProgress = 10000
                         /\ ~grid[t[2]][t[1]].building.abandoned
  /\ \E t \in AllTiles : /\ grid[t[2]][t[1]].building.type \in {"power_plant", "water_tower"}
                         /\ \/ grid[t[2]][t[1]].building.abandoned
                            \/ grid[t[2]][t[1]].building.constructionProgress < 10000

---------------------------------------------------------------------------
(* 6. hasRoadAccess *)

\* roadAccessVisited[idx] = 1; a store beyond the end of a typed array is dropped
MarkVisited(visited, idx) ==
  IF idx < VISITED_LENGTH THEN visited \cup {idx} ELSE visited

\* the for loop over the four neighbours of the dequeued tile cur, from the k-th on;
\* st is [found, queue, visited], the queue holding the triples written so far
RECURSIVE VisitNeighbors(_, _, _, _, _, _)
VisitNeighbors(g, size, startZone, cur, k, st) ==
  IF k > 4 THEN st
  ELSE
    LET nx == CASE k = 1 -> cur.x - 1 [] k = 2 -> cur.x + 1 [] OTHER -> cur.x
        ny == CASE k = 3 -> cur.y - 1 [] k = 4 -> cur.y + 1 [] OTHER -> cur.y
        idx == ny * size + nx
    IN IF nx < 0 \/ nx >= size \/ ny < 0 \/ ny >= size
         THEN VisitNeighbors(g, size, startZone, cur, k + 1, st)
       ELSE IF idx \in st.visited
         THEN VisitNeighbors(g, size, startZone, cur, k + 1, st)
       ELSE
         LET marked == MarkVisited(st.visited, idx)
             neighbor == g[ny][nx]
             isPassableZone == neighbor.zone = startZone
                               /\ neighbor.building.type # "water"
         IN IF neighbor.building.type \in {"road", "bridge"}
              THEN [st EXCEPT !.found = TRUE, !.visited = marked]
            ELSE IF isPassableZone /\ 3 * Len(st.queue) < QUEUE_LENGTH - 3
              THEN VisitNeighbors(g, size, startZone, cur, k + 1,
                     [st EXCEPT !.visited = marked,
                                !.queue = Append(@, [x |-> nx, y |-> ny,
                                                     dist |-> cur.dist + 1])])
            ELSE VisitNeighbors(g, size, startZone, cur, k + 1,
                                [st EXCEPT !.visited = marked])

\* the while loop, from queue entry head on
RECURSIVE RoadAccessLoop(_, _, _, _, _, _)
RoadAccessLoop(g, size, startZone, maxDistance, head, st) ==
  IF head > Len(st.queue) THEN st
  ELSE LET cur == st.queue[head]
       IN IF cur.dist >= maxDistance
            THEN RoadAccessLoop(g, size, startZone, maxDistance, head + 1, st)
          ELSE LET Continue(after) ==
                     IF after.found THEN after
                     ELSE RoadAccessLoop(g, size, startZone, maxDistance, head + 1,
                                         after)
               IN Continue(VisitNeighbors(g, size, startZone, st.queue[head], 1, st))

\* hasRoadAccess without the clearing loop of lines 371-379
hasRoadAccessWithoutClearing(g, x, y, size, maxDistance, visited) ==
  LET startZone == g[y][x].zone
      cleared == visited
      Result(done) == [found |-> done.found, visited |-> done.visited]
  IN IF startZone = "none" THEN [found |-> FALSE, visited |-> visited]
     ELSE Result(RoadAccessLoop(g, size, startZone, maxDistance, 1,
                                [found |-> FALSE,
                                 queue |-> <<[x |-> x, y |-> y, dist |-> 0]>>,
                                 visited |-> MarkVisited(cleared, y * size + x)]))

\* hasRoadAccess(grid, x, y, size, maxDistance) with the module's visited buffer as
\* it stands: [found |-> the result, visited |-> the buffer afterwards]
hasRoadAccess(g, x, y, size, maxDistance, visited) ==
  LET startZone == g[y][x].zone
      cleared == visited \ {cy * size + cx :
                              cx \in Max(0, x - maxDistance) .. Min(size - 1, x + maxDistance),
                              cy \in Max(0, y - maxDistance) .. Min(size - 1, y + maxDistance)}
      Result(done) == [found |-> done.found, visited |-> done.visited]
  IN IF startZone = "none" THEN [found |-> FALSE, visited |-> visited]
     ELSE Result(RoadAccessLoop(g, size, startZone, maxDistance, 1,
                                [found |-> FALSE,
                                 queue |-> <<[x |-> x, y |-> y, dist |-> 0]>>,
                                 visited |-> MarkVisited(cleared, y * size + x)]))

\* a call of hasRoadAccess(state.grid, x, y, state.gridSize, maxDistance)
CallHasRoadAccess(x, y, maxDistance) ==
  LET r == hasRoadAccess(grid, x, y, gridSize, maxDistance, roadAccessVisited)
  IN /\ pc = "idle"
     /\ call' = [op |-> "hasRoadAccess", x |-> x, y |-> y,
                 maxDistance |-> maxDistance]
     /\ ret' = r.found
     /\ roadAccessVisited' = r.visited
     /\ UNCHANGED <<grid, gridSize, clockVars, econVars, services, logVars,
                    disastersEnabled, scanVars, saved, inputNow>>

---------------------------------------------------------------------------
(* Road access in small cities with walls, and in a city expanded twice *)

\* a tile as the tools leave it
ZonedTile(t, zone) == [t EXCEPT !.zone = zone]
BuiltTile(t, type, zone) ==
  [t EXCEPT !.building = [createBuilding(type) EXCEPT !.constructionProgress = 10000],
            !.zone = zone]

RoadSize == 4
WallSets ==
  {{}, {<<1, 0>>, <<1, 1>>, <<1, 2>>, <<1, 3>>}, {<<1, 0>>, <<1, 1>>, <<1, 2>>},
   {<<1, 1>>, <<1, 2>>, <<1, 3>>, <<3, 1>>, <<2, 1>>},
   {<<1, 0>>, <<1, 1>>, <<1, 2>>, <<3, 1>>, <<3, 2>>, <<2, 2>>},
   {<<2, 3>>, <<3, 2>>}, {<<2, 2>>, <<2, 3>>, <<1, 0>>}}
WallKinds == {"unzoned", "water", "commercial"}
RoadCells == {<<3, 3>>, <<0, 3>>}
RoadKinds == {"road", "zoned road", "bridge", "none"}

\* a residential district with one house, walls of one kind and at most one road
RoadGrid(walls, wallKind, roadCell, roadKind) ==
  [y \in Coords(RoadSize) |-> [x \in Coords(RoadSize) |->
     LET t == createTile(x, y, "grass")
     IN IF <<x, y>> = roadCell /\ roadKind # "none"
          THEN CASE roadKind = "road"       -> BuiltTile(t, "road", "none")
                 [] roadKind = "zoned road" -> BuiltTile(t, "road", "residential")
                 [] roadKind = "bridge"     -> BuiltTile(t, "bridge", "none")
        ELSE IF <<x, y>> \in walls
          THEN CASE wallKind = "unzoned"    -> t
                 [] wallKind = "water"      -> BuiltTile(t, "water", "none")
                 [] wallKind = "commercial" -> ZonedTile(t, "commercial")
        ELSE IF <<x, y>> = <<2, 0>> THEN BuiltTile(t, "house_small", "residential")
        ELSE ZonedTile(t, "residential")]]

RoadGrids ==
  {RoadGrid(walls, wk, rc, rk) :
     walls \in WallSets, wk \in WallKinds, rc \in RoadCells, rk \in RoadKinds}

\* DEFAULT_GRID_SIZE on a desktop, and expandGrid's expansion per side
DEFAULT_GRID_SIZE == 70
EXPANSION == 15
ExpandedSize == DEFAULT_GRID_SIZE + 4 * EXPANSION

\* the default city expanded twice, with a residential strip two tiles deep along
\* the bottom edge and a road at its end
ExpandedGrid ==
  [y \in Coords(ExpandedSize) |-> [x \in Coords(ExpandedSize) |->
     LET t == createTile(x, y, "grass")
     IN IF x = 52 /\ y = ExpandedSize - 1 THEN BuiltTile(t, "road", "none")
        ELSE IF x \in 53 .. 68 /\ y >= ExpandedSize - 2 THEN ZonedTile(t, "residential")
        ELSE t]]

RoadProbes ==
  IF gridSize = RoadSize THEN AllTiles
  ELSE {<<53, gridSize - 1>>, <<59, gridSize - 1>>, <<60, gridSize - 2>>}

RoadDistances == {3, 8}

InitRoad ==
  \/ \E g \in RoadGrids : InitialGameState(g, RoadSize)
  \/ InitialGameState(ExpandedGrid, ExpandedSize)

NextRoad ==
  \E p \in RoadProbes, d \in RoadDistances : CallHasRoadAccess(p[1], p[2], d)

SpecRoad == InitRoad /\ [][NextRoad]_vars

Neighbours(t) ==
  {n \in {<<t[1] - 1, t[2]>>, <<t[1] + 1, t[2]>>, <<t[1], t[2] - 1>>, <<t[1], t[2] + 1>>} :
     InGrid(n[1], n[2], gridSize)}

\* the tiles that paths of at most i steps from start reach through tiles of the
\* start tile's zone that are neither water nor a road or bridge
RECURSIVE Interior(_, _)
Interior(start, i) ==
  IF i = 0 THEN {start}
  ELSE LET inner == Interior(start, i - 1)
       IN inner \cup
          {n \in UNION {Neighbours(t) : t \in inner} :
             /\ grid[n[2]][n[1]].zone = grid[start[2]][start[1]].zone
             /\ grid[n[2]][n[1]].building.type \notin {"water", "road", "bridge"}}

\* a path of at most maxDistance steps from start ends on a road or bridge other
\* than the start tile
RoadWithin(start, maxDistance) ==
  \E t \in Interior(start, maxDistance - 1) :
    \E n \in Neighbours(t) \ {start} :
      grid[n[2]][n[1]].building.type \in {"road", "bridge"}

\* C9: hasRoadAccess returns false when the start tile's zone is none; otherwise it
\* returns true exactly when a 4-connected path of at least one and at most
\* maxDistance steps leads from (x, y) to a road or bridge tile through tiles of
\* the start tile's zone that are not water.
C9_RoadAccessIsPathExistence ==
  call.op = "hasRoadAccess" =>
    (ret <=> (/\ grid[call.y][call.x].zone # "none"
              /\ RoadWithin(<<call.x, call.y>>, call.maxDistance)))

---------------------------------------------------------------------------
(* 7. Bridges *)

getBridgeTypeForSpanOffByOne(span) ==
  IF span = 1 THEN "small"
  ELSE IF span < BRIDGE_LARGE_THRESHOLD THEN "large"
  ELSE "suspension"
getBridgeTypeForSpan(span) ==
  IF span = 1 THEN "small"
  ELSE IF span <= BRIDGE_LARGE_THRESHOLD THEN "large"
  ELSE "suspension"

getBridgeVariant(x, y, bridgeType) ==
  ((x * 31 + y * 17) % 100) % BridgeVariants(bridgeType)

createBridgeBuilding(bridgeType, orientation, variant, position, index, span, trackType) ==
  [type |-> "bridge", level |-> 0, population |-> 0, jobs |-> 0,
   powered |-> TRUE, watered |-> TRUE, onFire |-> FALSE, fireProgress |-> 0,
   age |-> 0, constructionProgress |-> 10000, abandoned |-> FALSE,
   flipped |-> FALSE,
   bridgeType |-> bridgeType, bridgeOrientation |-> orientation,
   bridgeVariant |-> variant, bridgePosition |-> position, bridgeIndex |-> index,
   bridgeSpan |-> span, bridgeTrackType |-> trackType]

NoOpportunity ==
  [found |-> FALSE, orientation |-> "none", span |-> 0, bridgeType |-> "none",
   waterTiles |-> <<>>, trackType |-> "none"]

\* the while loop of scanForBridgeInDirection, at tile (x, y)
RECURSIVE ScanLoop(_, _, _, _, _, _, _, _, _)
ScanLoop(g, size, x, y, dx, dy, orientation, trackType, waterTiles) ==
  IF ~InGrid(x, y, size) THEN NoOpportunity
  ELSE LET type == g[y][x].building.type
       IN IF type = "water"
            THEN IF Len(waterTiles) + 1 > MAX_BRIDGE_SPAN THEN NoOpportunity
                 ELSE ScanLoop(g, size, x + dx, y + dy, dx, dy, orientation,
                               trackType, Append(waterTiles, [x |-> x, y |-> y]))
          ELSE IF type = trackType /\ Len(waterTiles) > 0
            THEN [found |-> TRUE, orientation |-> orientation,
                  span |-> Len(waterTiles),
                  bridgeType |-> getBridgeTypeForSpan(Len(waterTiles)),
                  waterTiles |-> waterTiles, trackType |-> trackType]
          ELSE NoOpportunity

scanForBridgeInDirection(g, size, startX, startY, dx, dy, orientation, trackType) ==
  ScanLoop(g, size, startX + dx, startY + dy, dx, dy, orientation, trackType, <<>>)

detectBridgeOpportunityAnyStart(g, size, x, y, trackType) ==
  IF ~InGrid(x, y, size) THEN NoOpportunity
  ELSE LET northOpp == scanForBridgeInDirection(g, size, x, y, -1, 0, "ns", trackType)
           southOpp == scanForBridgeInDirection(g, size, x, y, 1, 0, "ns", trackType)
           eastOpp  == scanForBridgeInDirection(g, size, x, y, 0, -1, "ew", trackType)
           westOpp  == scanForBridgeInDirection(g, size, x, y, 0, 1, "ew", trackType)
       IN IF northOpp.found THEN northOpp
          ELSE IF southOpp.found THEN southOpp
          ELSE IF eastOpp.found THEN eastOpp
          ELSE westOpp

detectBridgeOpportunity(g, size, x, y, trackType) ==
  IF ~InGrid(x, y, size) THEN NoOpportunity
  ELSE IF g[y][x].building.type # trackType THEN NoOpportunity
  ELSE LET northOpp == scanForBridgeInDirection(g, size, x, y, -1, 0, "ns", trackType)
           southOpp == scanForBridgeInDirection(g, size, x, y, 1, 0, "ns", trackType)
           eastOpp  == scanForBridgeInDirection(g, size, x, y, 0, -1, "ew", trackType)
           westOpp  == scanForBridgeInDirection(g, size, x, y, 0, 1, "ew", trackType)
       IN IF northOpp.found THEN northOpp
          ELSE IF southOpp.found THEN southOpp
          ELSE IF eastOpp.found THEN eastOpp
          ELSE westOpp

\* buildBridges, as the grid it leaves; the water tiles of a scan lie on one line,
\* so the sort leaves them in scan order or reverses them
buildBridges(g, opportunity) ==
  LET w == opportunity.waterTiles
      n == Len(w)
      variant == getBridgeVariant(w[1].x, w[1].y, opportunity.bridgeType)
      ascending == IF opportunity.orientation = "ns" THEN w[1].x <= w[n].x
                   ELSE w[1].y <= w[n].y
      sortedTiles == [i \in 1 .. n |-> IF ascending THEN w[i] ELSE w[n + 1 - i]]
      IndexOf(x, y) == CHOOSE i \in 1 .. n : sortedTiles[i] = [x |-> x, y |-> y]
      Position(index) == IF index = 0 THEN "start"
                         ELSE IF index = n - 1 THEN "end"
                         ELSE "middle"
  IN [y \in DOMAIN g |-> [x \in DOMAIN g[y] |->
        IF [x |-> x, y |-> y] \in Range(w)
          THEN [g[y][x] EXCEPT
                  !.building = createBridgeBuilding(
                     opportunity.bridgeType, opportunity.orientation, variant,
                     Position(IndexOf(x, y) - 1), IndexOf(x, y) - 1, n,
                     opportunity.trackType),
                  !.zone = "none"]
          ELSE g[y][x]]]

\* the for loop of createBridgesOnPath over pathTiles, from the i-th on, with
\* checkAndCreateBridges as its body
RECURSIVE BridgePathLoop(_, _, _, _, _)
BridgePathLoop(g, size, pathTiles, trackType, i) ==
  IF i > Len(pathTiles) THEN g
  ELSE LET t == pathTiles[i]
           opportunity == detectBridgeOpportunity(g, size, t.x, t.y, trackType)
       IN BridgePathLoop(IF opportunity.found THEN buildBridges(g, opportunity) ELSE g,
                         size, pathTiles, trackType, i + 1)

\* createBridgesOnPath(state, pathTiles, trackType)
createBridgesOnPath(pathTiles, trackType) ==
  LET hasWaterInPath ==
        \E i \in 1 .. Len(pathTiles) :
          /\ InGrid(pathTiles[i].x, pathTiles[i].y, gridSize)
          /\ grid[pathTiles[i].y][pathTiles[i].x].building.type = "water"
  IN /\ pc = "idle"
     /\ call' = [op |-> "createBridgesOnPath", pathTiles |-> pathTiles,
                 trackType |-> trackType]
     /\ saved' = Snapshot(grid, budget, stats, notifications, history)
     /\ ret' = "state"
     /\ grid' = IF Len(pathTiles) = 0 \/ ~hasWaterInPath THEN grid
                ELSE BridgePathLoop(grid, gridSize, pathTiles, trackType, 1)
     /\ UNCHANGED <<gridSize, clockVars, econVars, services, logVars,
                    disastersEnabled, roadAccessVisited, scanVars, inputNow>>

---------------------------------------------------------------------------
(* Cities with tracks laid to both banks of straight water runs *)

BridgeSize == 13

\* the k-th tile of a horizontal ("h") or vertical ("v") line
TileAt(o, line, k) == IF o = "h" THEN <<k, line>> ELSE <<line, k>>

\* a stroke: a track tile at position start of the line, n water tiles after it and
\* a track tile behind them
StrokeTracks(st) ==
  {TileAt(st.o, st.line, st.start), TileAt(st.o, st.line, st.start + st.n + 1)}
StrokeWater(st) ==
  {TileAt(st.o, st.line, k) : k \in (st.start + 1) .. (st.start + st.n)}

StrokeGrid(strokes, track) ==
  [y \in Coords(BridgeSize) |-> [x \in Coords(BridgeSize) |->
     LET t == createTile(x, y, "grass")
     IN IF \E st \in strokes : <<x, y>> \in StrokeTracks(st)
          THEN BuiltTile(t, track, "none")
        ELSE IF \E st \in strokes : <<x, y>> \in StrokeWater(st)
          THEN BuiltTile(t, "water", "none")
        ELSE t]]

LongStrokes ==
  {st \in [o : {"h", "v"}, line : {0, 6}, start : {0, 1},
           n : 1 .. (MAX_BRIDGE_SPAN + 1)] :
     st.start + st.n + 1 <= BridgeSize - 1}

ShortStrokes ==
  {st \in [o : {"h", "v"}, line : {0, 2}, start : {0, 2}, n : {1}] :
     st.start = 0 \/ st.line = IF st.o = "h" THEN 0 ELSE 2}

BridgeGrids ==
  {StrokeGrid({st}, track) : st \in LongStrokes, track \in {"road", "rail"}}
  \cup {StrokeGrid(sts, "road") :
          sts \in {ss \in SUBSET ShortStrokes : Cardinality(ss) \in 2 .. 3}}

\* the paths a player can drag: from one track tile to another of the same row
\* or column
TrackTiles == {t \in AllTiles : grid[t[2]][t[1]].building.type \in {"road", "rail"}}

DragPath(a, b) ==
  LET len == Abs(b[1] - a[1]) + Abs(b[2] - a[2]) + 1
      sx == IF b[1] > a[1] THEN 1 ELSE IF b[1] < a[1] THEN -1 ELSE 0
      sy == IF b[2] > a[2] THEN 1 ELSE IF b[2] < a[2] THEN -1 ELSE 0
  IN [i \in 1 .. len |-> [x |-> a[1] + (i - 1) * sx, y |-> a[2] + (i - 1) * sy]]

DragPaths ==
  {DragPath(p[1], p[2]) :
     p \in {q \in TrackTiles \X TrackTiles :
              q[1] # q[2] /\ (q[1][1] = q[2][1] \/ q[1][2] = q[2][2])}}

InitBridge == \E g \in BridgeGrids : InitialGameState(g, BridgeSize)

NextBridge ==
  \E pathTiles \in DragPaths, trackType \in {"road", "rail"} :
    createBridgesOnPath(pathTiles, trackType)

SpecBridge == InitBridge /\ [][NextBridge]_vars

\* the straight runs of 1 .. MAX_BRIDGE_SPAN water tiles of grid g that have a tile of
\* type trackType at both ends: [o, line, start, n] as for a stroke
WaterRuns(g, trackType) ==
  {r \in [o : {"h", "v"}, line : Coords(gridSize), start : Coords(gridSize),
          n : 1 .. MAX_BRIDGE_SPAN] :
     /\ r.start + r.n + 1 <= gridSize - 1
     /\ \A t \in StrokeTracks(r) : g[t[2]][t[1]].building.type = trackType
     /\ \A t \in StrokeWater(r) : g[t[2]][t[1]].building.type = "water"}

PathSet == {<<call.pathTiles[i].x, call.pathTiles[i].y>> : i \in DOMAIN call.pathTiles}

\* the runs the path of the last call contains together with their end tiles
RunsOnPath ==
  {r \in WaterRuns(saved.grid, call.trackType) :
     StrokeTracks(r) \cup StrokeWater(r) \subseteq PathSet}

\* the n water tiles of run r are bridge tiles as the specification describes them
BridgedAsSpecified(r) ==
  \A i \in 1 .. r.n :
    LET t == TileAt(r.o, r.line, r.start + i)
        first == TileAt(r.o, r.line, r.start + 1)
        b == grid[t[2]][t[1]].building
    IN /\ b.type = "bridge"
       /\ b.bridgeSpan = r.n
       /\ b.bridgeTrackType = call.trackType
       /\ b.bridgeOrientation \in {"ns", "ew"}
       /\ b.bridgeOrientation = grid[first[2]][first[1]].building.bridgeOrientation
       /\ b.bridgeType = IF r.n = 1 THEN "small"
                         ELSE IF r.n <= 5 THEN "large" ELSE "suspension"
       /\ b.bridgePosition = IF i = 1 THEN "start"
                             ELSE IF i = r.n THEN "end" ELSE "middle"

\* no tile outside run r differs from what it was before the call
NothingElseChanged(r) ==
  \A t \in AllTiles \ StrokeWater(r) : grid[t[2]][t[1]] = saved.grid[t[2]][t[1]]

\* the water tiles that would be bridged from tile t in direction d of the grid
\* before the call: the sets of m tiles of water behind t that a tile of the track
\* type closes
SpansFrom(t, d) ==
  {{<<t[1] + k * d[1], t[2] + k * d[2]>> : k \in 1 .. m} : m \in
     {m \in 1 .. MAX_BRIDGE_SPAN :
        /\ InGrid(t[1] + (m + 1) * d[1], t[2] + (m + 1) * d[2], gridSize)
        /\ saved.grid[t[2] + (m + 1) * d[2]][t[1] + (m + 1) * d[1]].building.type
             = call.trackType
        /\ \A k \in 1 .. m :
             saved.grid[t[2] + k * d[2]][t[1] + k * d[1]].building.type = "water"}}

\* run r is the only water run that a track tile of the path borders
OnlyRunOfPath(r) ==
  \A t \in PathSet :
    (InGrid(t[1], t[2], gridSize)
     /\ saved.grid[t[2]][t[1]].building.type = call.trackType) =>
       \A d \in {<<-1, 0>>, <<1, 0>>, <<0, -1>>, <<0, 1>>} :
         \A span \in SpansFrom(t, d) : span = StrokeWater(r)

\* C10 as stated: createBridgesOnPath turns every run of 1..10 water tiles that the
\* path contains with its two end tiles of the track type into bridge tiles of span
\* n, one orientation, the track type, type small / large / suspension and positions
\* start, middle, ..., end, and changes no other tile.
C10_Original ==
  call.op = "createBridgesOnPath" =>
    \A r \in RunsOnPath : BridgedAsSpecified(r) /\ NothingElseChanged(r)

\* C10, amended: the same, for a run that is the only water run bordered by a track
\* tile of the path (a single bridged tile has position start).
C10_BridgeCreation ==
  call.op = "createBridgesOnPath" =>
    \A r \in RunsOnPath :
      OnlyRunOfPath(r) => BridgedAsSpecified(r) /\ NothingElseChanged(r)

\* a rail path across six water tiles has become a suspension bridge
C10_Witness ==
  /\ call.op = "createBridgesOnPath"
  /\ call.trackType = "rail"
  /\ \E r \in RunsOnPath :
       /\ r.n = 6 /\ r.o = "v"
       /\ OnlyRunOfPath(r)
       /\ BridgedAsSpecified(r)
       /\ grid # saved.grid

---------------------------------------------------------------------------
(* 7. Footprint search and evolveBuilding *)

isMergeableZoneTile(tile, zone, excludeTile, allowBuildingConsolidation) ==
  IF tile.x = excludeTile.x /\ tile.y = excludeTile.y
    THEN /\ tile.zone = zone /\ ~tile.building.onFire
         /\ tile.building.type # "water" /\ tile.building.type # "road"
  ELSE IF tile.zone # zone THEN FALSE
  ELSE IF tile.building.onFire THEN FALSE
  ELSE IF tile.building.type \in {"water", "road", "bridge"} THEN FALSE
  ELSE IF tile.building.type \in MERGEABLE_TILE_TYPES THEN TRUE
  ELSE allowBuildingConsolidation
       /\ tile.building.type \in CONSOLIDATABLE_BUILDINGS(zone)

footprintAvailable(g, originX, originY, width, height, zone, size, excludeTile, allowBuildingConsolidation) ==
  /\ ~(originX < 0 \/ originY < 0 \/ originX + width > size
       \/ originY + height > size)
  /\ \A c \in Footprint(originX, originY, width, height) :
       isMergeableZoneTile(g[c[2]][c[1]], zone, excludeTile,
                           allowBuildingConsolidation)

\* scoreFootprint, in hundredths
scoreFootprint(g, originX, originY, width, height, size) ==
  LET Adjacent(c) ==
        {n \in {<<c[1] - 1, c[2]>>, <<c[1] + 1, c[2]>>,
                <<c[1], c[2] - 1>>, <<c[1], c[2] + 1>>} :
           /\ InGrid(n[1], n[2], size)
           /\ g[n[2]][n[1]].building.type \in {"road", "bridge"}}
      RECURSIVE Sum(_)
      Sum(cells) ==
        IF cells = {} THEN 0
        ELSE LET c == CHOOSE c \in cells : TRUE
             IN Cardinality(Adjacent(c)) + Sum(cells \ {c})
      roadScore == Sum(Footprint(originX, originY, width, height))
  IN roadScore * 100 - width * height * 25

\* findFootprintIncludingTile: the candidates are pushed row by row and the sort
\* is stable, so candidates[0] is the first pushed one of the highest score;
\* [found |-> FALSE] stands for null
findFootprintIncludingTile(g, x, y, width, height, zone, size, allowBuildingConsolidation) ==
  LET excludeTile == [x |-> x, y |-> y]
      Ox(i) == x - (width - 1) + (i % width)
      Oy(i) == y - (height - 1) + (i \div width)
      candidates ==
        {i \in 0 .. (width * height - 1) :
           footprintAvailable(g, Ox(i), Oy(i), width, height, zone, size,
                              excludeTile, allowBuildingConsolidation)}
      Score(i) == scoreFootprint(g, Ox(i), Oy(i), width, height, size)
  IN IF candidates = {} THEN [found |-> FALSE, originX |-> 0, originY |-> 0]
     ELSE LET best == CHOOSE i \in candidates :
                        \A j \in candidates :
                          \/ Score(j) < Score(i)
                          \/ (Score(j) = Score(i) /\ i <= j)
          IN [found |-> TRUE, originX |-> Ox(best), originY |-> Oy(best)]

\* 24 + Math.random() * 12 lies in [24, 36): the slowest and a fast draw
BaseSpeeds == {24, 35}

\* getConstructionSpeed with baseSpeed drawn, in hundredths; every building is
\* square, so Math.sqrt(area) is its width
getConstructionSpeedBackwards(buildingType, baseSpeed) ==
  0 - FloorDiv(baseSpeed * 1000, getBuildingSize(buildingType).width * 13)
getConstructionSpeed(buildingType, baseSpeed) ==
  FloorDiv(baseSpeed * 1000, getBuildingSize(buildingType).width * 13)

\* the zone's entry of a demand record
ZoneDemand(demand, zone) ==
  CASE zone = "residential" -> demand.residential
    [] zone = "commercial"  -> demand.commercial
    [] zone = "industrial"  -> demand.industrial
    [] OTHER                -> 0

BuildingList(zone) ==
  CASE zone = "residential" -> RESIDENTIAL_BUILDINGS
    [] zone = "commercial"  -> COMMERCIAL_BUILDINGS
    [] zone = "industrial"  -> INDUSTRIAL_BUILDINGS
    [] OTHER                -> <<>>

\* Math.floor(max * Math.max(1, level) * efficiency * 0.8) when max > 0, else 0
OccupancyNone(max, b) == 0
Occupancy(max, b) ==
  LET utilities == (IF b.powered THEN 1 ELSE 0) + (IF b.watered THEN 1 ELSE 0)
  IN IF max > 0 THEN FloorDiv(max * Max(1, b.level) * utilities * 4, 10) ELSE 0

\* evolveBuilding with line 493 reduced to building.abandoned = true: the building
\* that becomes abandoned keeps its population and jobs
evolveBuildingKeepsTenants(g, x, y, svc, demand, rnd) ==
  LET tile == g[y][x]
      building == tile.building
      zone == tile.zone
      With(b) == [g EXCEPT ![y][x].building = b]
      Return(g2) == [grid |-> g2, building |-> g2[y][x].building]
      refreshed == [building EXCEPT !.powered = svc.power[y][x],
                                    !.watered = svc.water[y][x]]
      hasPower == refreshed.powered
      hasWater == refreshed.watered
      isStarter == isStarterBuilding(x, y, building.type)
      zoneDemandValue == ZoneDemand(demand, zone)
      \* the abandoned branch, cleared
      grass(cx, cy) == [createBuilding("grass") EXCEPT
                          !.powered = svc.power[cy][cx],
                          !.watered = svc.water[cy][cx]]
      size == getBuildingSize(building.type)
      cells == IF size.width > 1 \/ size.height > 1
                 THEN {c \in Footprint(x, y, size.width, size.height) :
                         c[2] \in DOMAIN g /\ c[1] \in DOMAIN g[c[2]]}
                 ELSE {}
      cleared == [cy \in DOMAIN g |-> [cx \in DOMAIN g[cy] |->
                    IF <<cx, cy>> \in cells
                      THEN [With(refreshed)[cy][cx] EXCEPT !.building = grass(cx, cy)]
                      ELSE With(refreshed)[cy][cx]]]
      \* the occupied branch
      aged == [refreshed EXCEPT !.age = @ + 10]
      buildingList == BuildingList(zone)
      serviceCoverage4 == svc.police[y][x] + svc.fire[y][x]
                          + svc.health[y][x] + svc.education[y][x]
      \* landValue / 24 + serviceCoverage / 28 + age / 60 + demandLevelBoost over
      \* the common denominator 840000
      targetLevel ==
        Min(5, Max(1, FloorDiv(tile.landValue * 35000 + serviceCoverage4 * 75
                               + aged.age * 1400
                               + Max(0, zoneDemandValue - 3000) * 84, 840000)))
      targetIndex == Min(Len(buildingList) - 1, targetLevel - 1)
      targetType == buildingList[targetIndex + 1]
      isSmall ==
        \/ zone = "residential" /\ building.type \in {"house_small", "house_medium"}
        \/ zone = "commercial" /\ building.type \in {"shop_small", "shop_medium"}
        \/ zone = "industrial" /\ building.type = "factory_small"
      allowBuildingConsolidation ==
        zoneDemandValue > 3000 /\ isSmall /\ zoneDemandValue > 7000
      attempt == /\ hasPower /\ hasWater /\ aged.age > 120
                 /\ (targetLevel > aged.level \/ targetType # aged.type)
                 /\ rnd.consolidate
      targetSize == getBuildingSize(targetType)
      footprint == findFootprintIncludingTile(With(aged), x, y, targetSize.width,
                     targetSize.height, zone, Cardinality(DOMAIN g),
                     allowBuildingConsolidation)
      consolidated == attempt /\ footprint.found
      anchorX == IF consolidated THEN footprint.originX ELSE x
      anchorY == IF consolidated THEN footprint.originY ELSE y
      grown ==
        IF consolidated
          THEN applyBuildingFootprint(With(aged), footprint.originX,
                 footprint.originY, targetType, zone, targetLevel, svc)
        ELSE IF attempt /\ targetLevel > aged.level
          THEN With([aged EXCEPT !.level = Min(targetLevel, aged.level + 1)])
        ELSE With(aged)
      anchorBuilding ==
        [grown[anchorY][anchorX].building EXCEPT
           !.powered = svc.power[anchorY][anchorX],
           !.watered = svc.water[anchorY][anchorX],
           !.level = Max(@, Min(targetLevel, @ + 1))]
      buildingStats == BUILDING_STATS(anchorBuilding.type)
      occupied ==
        [grown EXCEPT ![anchorY][anchorX].building =
           [anchorBuilding EXCEPT
              !.population = Occupancy(buildingStats.maxPop, anchorBuilding),
              !.jobs = Occupancy(buildingStats.maxJobs, anchorBuilding)]]
  IN IF zone = "none" \/ building.type \in {"grass", "water", "road", "bridge"}
       THEN Return(g)
     ELSE IF building.type = "empty"
       THEN Return(With([refreshed EXCEPT !.population = 0, !.jobs = 0]))
     ELSE IF ~isStarter /\ (~hasPower \/ ~hasWater)
       THEN Return(With(refreshed))
     ELSE IF building.constructionProgress < 10000
       THEN Return(With([refreshed EXCEPT
              !.constructionProgress =
                 Min(10000, @ + getConstructionSpeed(building.type, rnd.baseSpeed)),
              !.population = 0, !.jobs = 0]))
     ELSE IF building.abandoned
       THEN IF zoneDemandValue > 1000 /\ rnd.clear
              THEN [grid |-> cleared, building |-> grass(x, y)]
              ELSE Return(With([refreshed EXCEPT !.population = 0, !.jobs = 0,
                                                 !.age = @ + 1]))
     ELSE IF zoneDemandValue < -2000 /\ building.age > 300 /\ rnd.abandon
       THEN Return(With([refreshed EXCEPT !.abandoned = TRUE]))
     ELSE Return(occupied)

\* evolveBuilding without the test zoneDemandValue > 10 of line 460: an abandoned
\* building can be cleared at any demand
evolveBuildingClearsAtAnyDemand(g, x, y, svc, demand, rnd) ==
  LET tile == g[y][x]
      building == tile.building
      zone == tile.zone
      With(b) == [g EXCEPT ![y][x].building = b]
      Return(g2) == [grid |-> g2, building |-> g2[y][x].building]
      refreshed == [building EXCEPT !.powered = svc.power[y][x],
                                    !.watered = svc.water[y][x]]
      hasPower == refreshed.powered
      hasWater == refreshed.watered
      isStarter == isStarterBuilding(x, y, building.type)
      zoneDemandValue == ZoneDemand(demand, zone)
      \* the abandoned branch, cleared
      grass(cx, cy) == [createBuilding("grass") EXCEPT
                          !.powered = svc.power[cy][cx],
                          !.watered = svc.water[cy][cx]]
      size == getBuildingSize(building.type)
      cells == IF size.width > 1 \/ size.height > 1
                 THEN {c \in Footprint(x, y, size.width, size.height) :
                         c[2] \in DOMAIN g /\ c[1] \in DOMAIN g[c[2]]}
                 ELSE {}
      cleared == [cy \in DOMAIN g |-> [cx \in DOMAIN g[cy] |->
                    IF <<cx, cy>> \in cells
                      THEN [With(refreshed)[cy][cx] EXCEPT !.building = grass(cx, cy)]
                      ELSE With(refreshed)[cy][cx]]]
      \* the occupied branch
      aged == [refreshed EXCEPT !.age = @ + 10]
      buildingList == BuildingList(zone)
      serviceCoverage4 == svc.police[y][x] + svc.fire[y][x]
                          + svc.health[y][x] + svc.education[y][x]
      \* landValue / 24 + serviceCoverage / 28 + age / 60 + demandLevelBoost over
      \* the common denominator 840000
      targetLevel ==
        Min(5, Max(1, FloorDiv(tile.landValue * 35000 + serviceCoverage4 * 75
                               + aged.age * 1400
                               + Max(0, zoneDemandValue - 3000) * 84, 840000)))
      targetIndex == Min(Len(buildingList) - 1, targetLevel - 1)
      targetType == buildingList[targetIndex + 1]
      isSmall ==
        \/ zone = "residential" /\ building.type \in {"house_small", "house_medium"}
        \/ zone = "commercial" /\ building.type \in {"shop_small", "shop_medium"}
        \/ zone = "industrial" /\ building.type = "factory_small"
      allowBuildingConsolidation ==
        zoneDemandValue > 3000 /\ isSmall /\ zoneDemandValue > 7000
      attempt == /\ hasPower /\ hasWater /\ aged.age > 120
                 /\ (targetLevel > aged.level \/ targetType # aged.type)
                 /\ rnd.consolidate
      targetSize == getBuildingSize(targetType)
      footprint == findFootprintIncludingTile(With(aged), x, y, targetSize.width,
                     targetSize.height, zone, Cardinality(DOMAIN g),
                     allowBuildingConsolidation)
      consolidated == attempt /\ footprint.found
      anchorX == IF consolidated THEN footprint.originX ELSE x
      anchorY == IF consolidated THEN footprint.originY ELSE y
      grown ==
        IF consolidated
          THEN applyBuildingFootprint(With(aged), footprint.originX,
                 footprint.originY, targetType, zone, targetLevel, svc)
        ELSE IF attempt /\ targetLevel > aged.level
          THEN With([aged EXCEPT !.level = Min(targetLevel, aged.level + 1)])
        ELSE With(aged)
      anchorBuilding ==
        [grown[anchorY][anchorX].building EXCEPT
           !.powered = svc.power[anchorY][anchorX],
           !.watered = svc.water[anchorY][anchorX],
           !.level = Max(@, Min(targetLevel, @ + 1))]
      buildingStats == BUILDING_STATS(anchorBuilding.type)
      occupied ==
        [grown EXCEPT ![anchorY][anchorX].building =
           [anchorBuilding EXCEPT
              !.population = Occupancy(buildingStats.maxPop, anchorBuilding),
              !.jobs = Occupancy(buildingStats.maxJobs, anchorBuilding)]]
  IN IF zone = "none" \/ building.type \in {"grass", "water", "road", "bridge"}
       THEN Return(g)
     ELSE IF building.type = "empty"
       THEN Return(With([refreshed EXCEPT !.population = 0, !.jobs = 0]))
     ELSE IF ~isStarter /\ (~hasPower \/ ~hasWater)
       THEN Return(With(refreshed))
     ELSE IF building.constructionProgress < 10000
       THEN Return(With([refreshed EXCEPT
              !.constructionProgress =
                 Min(10000, @ + getConstructionSpeed(building.type, rnd.baseSpeed)),
              !.population = 0, !.jobs = 0]))
     ELSE IF building.abandoned
       THEN IF rnd.clear
              THEN [grid |-> cleared, building |-> grass(x, y)]
              ELSE Return(With([refreshed EXCEPT !.population = 0, !.jobs = 0,
                                                 !.age = @ + 1]))
     ELSE IF zoneDemandValue < -2000 /\ building.age > 300 /\ rnd.abandon
       THEN Return(With([refreshed EXCEPT !.abandoned = TRUE, !.population = 0,
                                          !.jobs = 0]))
     ELSE Return(occupied)

\* evolveBuilding(grid, x, y, services, demand), with the outcomes of its random
\* draws in rnd: baseSpeed for getConstructionSpeed, and clear, abandon and
\* consolidate for the three tests Math.random() < chance (each chance lies
\* strictly between 0 and 1 where it is drawn).  The function writes the grid in
\* place: the result is the grid as it leaves it and the building it returns.
evolveBuilding(g, x, y, svc, demand, rnd) ==
  LET tile == g[y][x]
      building == tile.building
      zone == tile.zone
      With(b) == [g EXCEPT ![y][x].building = b]
      Return(g2) == [grid |-> g2, building |-> g2[y][x].building]
      refreshed == [building EXCEPT !.powered = svc.power[y][x],
                                    !.watered = svc.water[y][x]]
      hasPower == refreshed.powered
      hasWater == refreshed.watered
      isStarter == isStarterBuilding(x, y, building.type)
      zoneDemandValue == ZoneDemand(demand, zone)
      \* the abandoned branch, cleared
      grass(cx, cy) == [createBuilding("grass") EXCEPT
                          !.powered = svc.power[cy][cx],
                          !.watered = svc.water[cy][cx]]
      size == getBuildingSize(building.type)
      cells == IF size.width > 1 \/ size.height > 1
                 THEN {c \in Footprint(x, y, size.width, size.height) :
                         c[2] \in DOMAIN g /\ c[1] \in DOMAIN g[c[2]]}
                 ELSE {}
      cleared == [cy \in DOMAIN g |-> [cx \in DOMAIN g[cy] |->
                    IF <<cx, cy>> \in cells
                      THEN [With(refreshed)[cy][cx] EXCEPT !.building = grass(cx, cy)]
                      ELSE With(refreshed)[cy][cx]]]
      \* the occupied branch
      aged == [refreshed EXCEPT !.age = @ + 10]
      buildingList == BuildingList(zone)
      serviceCoverage4 == svc.police[y][x] + svc.fire[y][x]
                          + svc.health[y][x] + svc.education[y][x]
      \* landValue / 24 + serviceCoverage / 28 + age / 60 + demandLevelBoost over
      \* the common denominator 840000
      targetLevel ==
        Min(5, Max(1, FloorDiv(tile.landValue * 35000 + serviceCoverage4 * 75
                               + aged.age * 1400
                               + Max(0, zoneDemandValue - 3000) * 84, 840000)))
      targetIndex == Min(Len(buildingList) - 1, targetLevel - 1)
      targetType == buildingList[targetIndex + 1]
      isSmall ==
        \/ zone = "residential" /\ building.type \in {"house_small", "house_medium"}
        \/ zone = "commercial" /\ building.type \in {"shop_small", "shop_medium"}
        \/ zone = "industrial" /\ building.type = "factory_small"
      allowBuildingConsolidation ==
        zoneDemandValue > 3000 /\ isSmall /\ zoneDemandValue > 7000
      attempt == /\ hasPower /\ hasWater /\ aged.age > 120
                 /\ (targetLevel > aged.level \/ targetType # aged.type)
                 /\ rnd.consolidate
      targetSize == getBuildingSize(targetType)
      footprint == findFootprintIncludingTile(With(aged), x, y, targetSize.width,
                     targetSize.height, zone, Cardinality(DOMAIN g),
                     allowBuildingConsolidation)
      consolidated == attempt /\ footprint.found
      anchorX == IF consolidated THEN footprint.originX ELSE x
      anchorY == IF consolidated THEN footprint.originY ELSE y
      grown ==
        IF consolidated
          THEN applyBuildingFootprint(With(aged), footprint.originX,
                 footprint.originY, targetType, zone, targetLevel, svc)
        ELSE IF attempt /\ targetLevel > aged.level
          THEN With([aged EXCEPT !.level = Min(targetLevel, aged.level + 1)])
        ELSE With(aged)
      anchorBuilding ==
        [grown[anchorY][anchorX].building EXCEPT
           !.powered = svc.power[anchorY][anchorX],
           !.watered = svc.water[anchorY][anchorX],
           !.level = Max(@, Min(targetLevel, @ + 1))]
      buildingStats == BUILDING_STATS(anchorBuilding.type)
      occupied ==
        [grown EXCEPT ![anchorY][anchorX].building =
           [anchorBuilding EXCEPT
              !.population = Occupancy(buildingStats.maxPop, anchorBuilding),
              !.jobs = Occupancy(buildingStats.maxJobs, anchorBuilding)]]
  IN IF zone = "none" \/ building.type \in {"grass", "water", "road", "bridge"}
       THEN Return(g)
     ELSE IF building.type = "empty"
       THEN Return(With([refreshed EXCEPT !.population = 0, !.jobs = 0]))
     ELSE IF ~isStarter /\ (~hasPower \/ ~hasWater)
       THEN Return(With(refreshed))
     ELSE IF building.constructionProgress < 10000
       THEN Return(With([refreshed EXCEPT
              !.constructionProgress =
                 Min(10000, @ + getConstructionSpeed(building.type, rnd.baseSpeed)),
              !.population = 0, !.jobs = 0]))
     ELSE IF building.abandoned
       THEN IF zoneDemandValue > 1000 /\ rnd.clear
              THEN [grid |-> cleared, building |-> grass(x, y)]
              ELSE Return(With([refreshed EXCEPT !.population = 0, !.jobs = 0,
                                                 !.age = @ + 1]))
     ELSE IF zoneDemandValue < -2000 /\ building.age > 300 /\ rnd.abandon
       THEN Return(With([refreshed EXCEPT !.abandoned = TRUE, !.population = 0,
                                          !.jobs = 0]))
     ELSE Return(occupied)

---------------------------------------------------------------------------
(* 8. calculateStats, updateBudgetCosts, generateAdvisorMessages *)

\* the sum of F(x, y) over the tiles of a size * size grid, from index i on
RECURSIVE SumTiles(_, _, _)
SumTiles(size, F(_, _), i) ==
  IF i >= size * size THEN 0
  ELSE F(i % size, i \div size) + SumTiles(size, F, i + 1)

\* the number of tiles of a size * size grid that satisfy P
CountTiles(size, P(_, _)) ==
  Cardinality({t \in Coords(size) \X Coords(size) : P(t[1], t[2])})

\* calculateAverageCoverage, in hundredths
calculateAverageCoverage(coverage) ==
  LET size == Cardinality(DOMAIN coverage)
      Value(x, y) == coverage[y][x]
  IN IF size > 0 THEN FloorDiv(SumTiles(size, Value, 0), size * size) ELSE 0

\* Math.min(100, Math.max(-100, v)) of lines 631-633, in hundredths
ClampDemandUnclamped(v) == v
ClampDemand(v) == Min(10000, Max(-10000, v))

\* calculateStats; rate and effectiveRate are the tax rates in hundredths, and
\* the scores and the demand of the result are in hundredths
calculateStats(g, size, bud, rate, effectiveRate, svc) ==
  LET Type(x, y) == g[y][x].building.type
      Complete(x, y) == g[y][x].building.constructionProgress >= 10000
      JobsFromTile(x, y) ==
        IF g[y][x].hasSubway /\ g[y][x].zone = "commercial"
          THEN FloorDiv(g[y][x].building.jobs * 115, 100)
          ELSE g[y][x].building.jobs
      Population(x, y) == g[y][x].building.population
      Pollution(x, y) == g[y][x].pollution
      population == SumTiles(size, Population, 0)
      jobs == SumTiles(size, JobsFromTile, 0)
      totalPollution == SumTiles(size, Pollution, 0)
      Toxic(x, y) == g[y][x].pollution > 4000 /\ g[y][x].pollutionType = "toxic"
      toxicTiles == CountTiles(size, Toxic)
      IsTree(x, y) == Type(x, y) = "tree"
      IsWater(x, y) == Type(x, y) = "water"
      IsPark(x, y) == Type(x, y) \in {"park", "park_large", "tennis"}
      HasSubway(x, y) == g[y][x].hasSubway
      IsSubwayStation(x, y) == Type(x, y) = "subway_station"
      IsRail(x, y) == Type(x, y) = "rail" \/ g[y][x].hasRailOverlay
      IsRailStation(x, y) == Type(x, y) = "rail_station"
      Done(type) == LET P(x, y) == Type(x, y) = type /\ Complete(x, y)
                    IN CountTiles(size, P)
      treeCount == CountTiles(size, IsTree)
      waterCount == CountTiles(size, IsWater)
      parkCount == CountTiles(size, IsPark)
      subwayTiles == CountTiles(size, HasSubway)
      subwayStations == CountTiles(size, IsSubwayStation)
      railTiles == CountTiles(size, IsRail)
      railStations == CountTiles(size, IsRailStation)
      hasAirport == Done("airport") > 0
      hasCityHall == Done("city_hall") > 0
      hasSpaceProgram == Done("space_program") > 0
      hasAmusementPark == Done("amusement_park") > 0
      \* Math.max(0, 1 - (effectiveTaxRate - 9) / 91) is taxMultiplier91 / 9100
      taxMultiplier91 == Max(0, 10000 - effectiveRate)
      taxAdditiveModifier == (900 - effectiveRate) * 2
      subwayBonus == Min(2000, subwayTiles * 50 + subwayStations * 300)
      railCommercialBonus == Min(1200, railTiles * 15 + railStations * 400)
      railIndustrialBonus == Min(1800, railTiles * 25 + railStations * 600)
      stadiumCommercialBonus == Min(2000, Done("stadium") * 1200)
      museumCommercialBonus == Min(1500, Done("museum") * 800)
      museumResidentialBonus == Min(1000, Done("museum") * 500)
      residentialBonuses ==
        (IF hasCityHall THEN 800 ELSE 0) + (IF hasSpaceProgram THEN 1000 ELSE 0)
        + museumResidentialBonus
      commercialBonuses ==
        subwayBonus + (IF hasAirport THEN 1500 ELSE 0)
        + (IF hasCityHall THEN 1000 ELSE 0) + stadiumCommercialBonus
        + museumCommercialBonus + (IF hasAmusementPark THEN 1800 ELSE 0)
        + railCommercialBonus
      industrialBonuses ==
        (IF hasAirport THEN 1000 ELSE 0) + (IF hasCityHall THEN 500 ELSE 0)
        + (IF hasSpaceProgram THEN 2000 ELSE 0) + railIndustrialBonus
      \* (jobs - population * 0.7) / 18 is 5 * (10 jobs - 7 population) / 9 hundredths
      residentialWithBonuses9 == 5 * (10 * jobs - 7 * population) + 9 * residentialBonuses
      \* (population * 0.3 - jobs * 0.3) / 4 is 15 * (population - jobs) / 2 hundredths
      commercialWithBonuses2 == 15 * (population - jobs) + 2 * commercialBonuses
      \* (population * 0.35 - jobs * 0.3) / 2 is (35 population - 30 jobs) / 2 hundredths
      industrialWithBonuses2 == 35 * population - 30 * jobs + 2 * industrialBonuses
      residentialDemand ==
        ClampDemand(FloorDiv(residentialWithBonuses9 * taxMultiplier91, 9 * 9100)
              + taxAdditiveModifier)
      commercialDemand ==
        ClampDemand(FloorDiv(commercialWithBonuses2 * taxMultiplier91, 2 * 9100)
              + FloorDiv(taxAdditiveModifier * 8, 10))
      industrialDemand ==
        ClampDemand(FloorDiv(industrialWithBonuses2 * taxMultiplier91, 2 * 9100)
              + FloorDiv(taxAdditiveModifier * 5, 10))
      income == FloorDiv(2 * population * rate + jobs * rate, 2000)
      Expense(c) == FloorDiv(c.cost * c.funding, 100)
      expenses == Expense(bud.police) + Expense(bud.fire) + Expense(bud.health)
                  + Expense(bud.education) + Expense(bud.transportation)
                  + Expense(bud.parks) + Expense(bud.power) + Expense(bud.water)
      avgPoliceCoverage == calculateAverageCoverage(svc.police)
      avgFireCoverage == calculateAverageCoverage(svc.fire)
      avgHealthCoverage == calculateAverageCoverage(svc.health)
      avgEducationCoverage == calculateAverageCoverage(svc.education)
      totalTiles == size * size
      safety == Min(10000, FloorDiv(7 * avgPoliceCoverage + 3 * avgFireCoverage, 10))
      health == Min(10000, FloorDiv(8 * avgHealthCoverage
                                    + 2 * (10000 - FloorDiv(totalPollution, totalTiles)),
                                    10))
      education == Min(10000, avgEducationCoverage)
      environment ==
        Max(0, Min(10000,
          FloorDiv(10000 * totalTiles - totalPollution - toxicTiles * 50000
                   + (treeCount + parkCount + waterCount) * 5000, totalTiles)))
      jobSatisfaction == IF jobs >= population THEN 10000
                         ELSE FloorDiv(jobs * 10000, population)
      happiness ==
        Min(10000, FloorDiv(15 * safety + 20 * health + 15 * education
                            + 15 * environment + 20 * jobSatisfaction
                            + 15 * (10000 - 3 * rate), 100))
  IN [population |-> population, jobs |-> jobs, money |-> 0, income |-> income,
      expenses |-> expenses, happiness |-> happiness, health |-> health,
      education |-> education, safety |-> safety, environment |-> environment,
      demand |-> [residential |-> residentialDemand,
                  commercial |-> commercialDemand,
                  industrial |-> industrialDemand]]

\* updateBudgetCosts(grid, budget).  newBudget = { ...budget } copies the eight
\* references, so every newBudget.<category>.cost = ... writes the category
\* object of the budget passed in: the result describes both the returned budget
\* and the input budget after the call.
updateBudgetCosts(g, bud) ==
  LET size == Cardinality(DOMAIN g)
      Count(types) == LET P(x, y) == g[y][x].building.type \in types
                      IN CountTiles(size, P)
      HasSubway(x, y) == g[y][x].hasSubway
      subwayTileCount == CountTiles(size, HasSubway)
  IN [bud EXCEPT
        !.police.cost = Count({"police_station"}) * 50,
        !.fire.cost = Count({"fire_station"}) * 50,
        !.health.cost = Count({"hospital"}) * 100,
        !.education.cost = Count({"school"}) * 30 + Count({"university"}) * 100,
        !.transportation.cost = Count({"road"}) * 2 + subwayTileCount * 3
                                + Count({"subway_station"}) * 25,
        !.parks.cost = Count({"park", "park_large", "tennis"}) * 10,
        !.power.cost = Count({"power_plant"}) * 150,
        !.water.cost = Count({"water_tower"}) * 75]

\* generateAdvisorMessages; the text of a message is kept as the count it prints
generateAdvisorMessages(st, svc, g) ==
  LET size == Cardinality(DOMAIN g)
      Unpowered(x, y) == /\ g[y][x].zone # "none"
                         /\ g[y][x].building.type # "grass"
                         /\ ~g[y][x].building.powered
      Unwatered(x, y) == /\ g[y][x].zone # "none"
                         /\ g[y][x].building.type # "grass"
                         /\ ~g[y][x].building.watered
      unpoweredBuildings == CountTiles(size, Unpowered)
      unwateredBuildings == CountTiles(size, Unwatered)
      Message(name, icon, n) ==
        IF n > 0 THEN <<[name |-> name, icon |-> icon, messages |-> <<n>>,
                         priority |-> IF n > 10 THEN "high" ELSE "medium"]>>
        ELSE <<>>
  IN Message("Power Advisor", "power", unpoweredBuildings)
     \o Message("Water Advisor", "water", unwateredBuildings)

---------------------------------------------------------------------------
(* 9. simulateTick *)
(*                                                                         *)
(* The call is modelled as a scan: TickBegin (lines 738-751), one TickTile *)
(* step for every tile whose loop body runs to the end (753-896), and      *)
(* TickEnd (899-939).  While the scan runs, grid is state.grid, the input, *)
(* and newGrid is the grid being built.  newGrid[y] is the very row object *)
(* state.grid[y] until row y is copied (y joins modifiedRows), so a write  *)
(* through newGrid to a row that has not been copied is a write to the     *)
(* input.  A heap h is [new, in, mod, visited]: newGrid, state.grid,       *)
(* modifiedRows and the roadAccessVisited buffer.                          *)

\* the heap after writes through newGrid that leave it as g2: the rows not yet
\* copied are shared with the input
Write(h, g2) ==
  [h EXCEPT !.new = g2,
            !.in = [r \in DOMAIN g2 |-> IF r \in h.mod THEN h.in[r] ELSE g2[r]]]

\* newGrid[r] = state.grid[r].map(...) for the rows not yet copied: a shared row
\* has the contents of the input row, so only modifiedRows changes
CopyRows(h, rows) == [h EXCEPT !.mod = @ \cup rows]

\* the three continue statements (lines 755-767), read from the input tile
Skipped(g, svc, x, y) ==
  LET originalTile == g[y][x]
      originalBuilding == originalTile.building
      needsPowerWaterUpdate == \/ originalBuilding.powered # svc.power[y][x]
                               \/ originalBuilding.watered # svc.water[y][x]
      bstats == BUILDING_STATS(originalBuilding.type)
      isCompletedServiceBuilding ==
        /\ originalTile.zone = "none"
        /\ originalBuilding.constructionProgress = 10000
        /\ ~originalBuilding.onFire
        /\ originalBuilding.type \notin {"grass", "tree", "empty"}
  IN \/ originalBuilding.type \in {"road", "bridge"} /\ ~needsPowerWaterUpdate
     \/ /\ originalTile.zone = "none"
        /\ originalBuilding.type \in {"grass", "tree"}
        /\ ~needsPowerWaterUpdate
        /\ originalTile.pollution < 1
        /\ (IF bstats.defined THEN bstats.pollution ELSE 0) = 0
     \/ isCompletedServiceBuilding /\ ~needsPowerWaterUpdate
        /\ originalTile.pollution < 1

\* the index of the first tile from index i on whose loop body is not skipped
RECURSIVE NextScan(_, _, _, _)
NextScan(g, svc, size, i) ==
  IF i >= size * size THEN size * size
  ELSE IF Skipped(g, svc, i % size, i \div size) THEN NextScan(g, svc, size, i + 1)
  ELSE i

\* the draws of lines 769-816 when none of them matters
NoDraw == [baseSpeed |-> 24, spawn |-> FALSE, clear |-> FALSE, abandon |-> FALSE,
           consolidate |-> FALSE]

\* the outcomes the draws of lines 769-816 can have for tile t of newGrid
GrowthDraws(t) ==
  LET b == t.building
  IN IF b.type \in {"grass", "empty"}
       THEN IF t.zone = "none" THEN {NoDraw}
            ELSE {[NoDraw EXCEPT !.spawn = s] : s \in BOOLEAN}
     ELSE IF b.constructionProgress < 10000
       THEN IF b.type \in NO_CONSTRUCTION_TYPES THEN {NoDraw}
            ELSE {[NoDraw EXCEPT !.baseSpeed = s] : s \in BaseSpeeds}
     ELSE IF t.zone = "none" THEN {NoDraw}
     ELSE IF b.abandoned THEN {[NoDraw EXCEPT !.clear = c] : c \in BOOLEAN}
     ELSE {NoDraw, [NoDraw EXCEPT !.abandon = TRUE],
           [NoDraw EXCEPT !.consolidate = TRUE]}

\* lines 769-816 without the test of roadAccess at line 806
TileGrowthWithoutRoad(h, svc, demand, size, x, y, rnd) ==
  LET newPowered == svc.power[y][x]
      newWatered == svc.water[y][x]
      \* 770-771
      t1 == [h.new[y][x] EXCEPT !.building.powered = newPowered,
                                !.building.watered = newWatered]
      b1 == t1.building
      \* 773-780
      canConstruct == \/ b1.type \in {"power_plant", "water_tower"}
                      \/ (b1.powered /\ b1.watered)
      t2 == IF /\ t1.zone = "none" /\ b1.constructionProgress < 10000
               /\ b1.type \notin NO_CONSTRUCTION_TYPES /\ canConstruct
              THEN [t1 EXCEPT !.building.constructionProgress =
                      Min(10000, @ + getConstructionSpeed(b1.type, rnd.baseSpeed))]
              ELSE t1
      \* 782-788
      t3 == IF /\ t2.building.type = "empty"
               /\ ~findBuildingOrigin([h.new EXCEPT ![y][x] = t2], x, y, size).found
              THEN [t2 EXCEPT !.building =
                      [createBuilding("grass") EXCEPT !.powered = newPowered,
                                                      !.watered = newWatered]]
              ELSE t2
      \* 790-816 on the heap h3 that lines 769-788 leave
      Zoned(h3) ==
        LET tile == h3.new[y][x]
            access == hasRoadAccess(h3.new, x, y, size, 8, h.visited)
            hasUtilities == newPowered /\ newWatered
            zoneDemandForSpawn == ZoneDemand(demand, tile.zone)
            candidate == BuildingList(IF tile.zone \in {"residential", "commercial"}
                                        THEN tile.zone ELSE "industrial")[1]
            wouldBeStarter == isStarterBuilding(x, y, candidate)
            candidateSize == getBuildingSize(candidate)
            \* spawnChance = 0.05 * max(0, min(1, (demand + 30) / 80)) is positive
            \* exactly when the demand is above -30, and never reaches 1
            spawns == /\ (hasUtilities \/ wouldBeStarter)
                      /\ zoneDemandForSpawn > -3000 /\ rnd.spawn
            hSpawn ==
              IF spawns /\ canPlaceMultiTileBuilding(h3.new, x, y, candidateSize.width,
                                                     candidateSize.height, size)
                THEN Write(CopyRows(h3, {r \in y .. (y + candidateSize.height - 1) :
                                           r < size}),
                           applyBuildingFootprint(h3.new, x, y, candidate, tile.zone,
                                                  1, svc))
                ELSE h3
            Evolved(e) == Write(h3, [e.grid EXCEPT ![y][x].building = e.building])
        IN IF tile.zone # "none" /\ tile.building.type = "grass"
             THEN [hSpawn EXCEPT !.visited = access.visited]
           ELSE IF tile.zone # "none"
             THEN Evolved(evolveBuilding(h3.new, x, y, svc, demand, rnd))
           ELSE h3
  IN Zoned(Write(CopyRows(h, {y}), [h.new EXCEPT ![y][x] = t3]))

\* lines 769-816 for tile (x, y): the utilities, construction of an unzoned
\* building, an orphaned filler tile, and spawn or evolveBuilding
TileGrowth(h, svc, demand, size, x, y, rnd) ==
  LET newPowered == svc.power[y][x]
      newWatered == svc.water[y][x]
      \* 770-771
      t1 == [h.new[y][x] EXCEPT !.building.powered = newPowered,
                                !.building.watered = newWatered]
      b1 == t1.building
      \* 773-780
      canConstruct == \/ b1.type \in {"power_plant", "water_tower"}
                      \/ (b1.powered /\ b1.watered)
      t2 == IF /\ t1.zone = "none" /\ b1.constructionProgress < 10000
               /\ b1.type \notin NO_CONSTRUCTION_TYPES /\ canConstruct
              THEN [t1 EXCEPT !.building.constructionProgress =
                      Min(10000, @ + getConstructionSpeed(b1.type, rnd.baseSpeed))]
              ELSE t1
      \* 782-788
      t3 == IF /\ t2.building.type = "empty"
               /\ ~findBuildingOrigin([h.new EXCEPT ![y][x] = t2], x, y, size).found
              THEN [t2 EXCEPT !.building =
                      [createBuilding("grass") EXCEPT !.powered = newPowered,
                                                      !.watered = newWatered]]
              ELSE t2
      \* 790-816 on the heap h3 that lines 769-788 leave
      Zoned(h3) ==
        LET tile == h3.new[y][x]
            access == hasRoadAccess(h3.new, x, y, size, 8, h.visited)
            hasUtilities == newPowered /\ newWatered
            zoneDemandForSpawn == ZoneDemand(demand, tile.zone)
            candidate == BuildingList(IF tile.zone \in {"residential", "commercial"}
                                        THEN tile.zone ELSE "industrial")[1]
            wouldBeStarter == isStarterBuilding(x, y, candidate)
            candidateSize == getBuildingSize(candidate)
            \* spawnChance = 0.05 * max(0, min(1, (demand + 30) / 80)) is positive
            \* exactly when the demand is above -30, and never reaches 1
            spawns == /\ access.found /\ (hasUtilities \/ wouldBeStarter)
                      /\ zoneDemandForSpawn > -3000 /\ rnd.spawn
            hSpawn ==
              IF spawns /\ canPlaceMultiTileBuilding(h3.new, x, y, candidateSize.width,
                                                     candidateSize.height, size)
                THEN Write(CopyRows(h3, {r \in y .. (y + candidateSize.height - 1) :
                                           r < size}),
                           applyBuildingFootprint(h3.new, x, y, candidate, tile.zone,
                                                  1, svc))
                ELSE h3
            Evolved(e) == Write(h3, [e.grid EXCEPT ![y][x].building = e.building])
        IN IF tile.zone # "none" /\ tile.building.type = "grass"
             THEN [hSpawn EXCEPT !.visited = access.visited]
           ELSE IF tile.zone # "none"
             THEN Evolved(evolveBuilding(h3.new, x, y, svc, demand, rnd))
           ELSE h3
  IN Zoned(Write(CopyRows(h, {y}), [h.new EXCEPT ![y][x] = t3]))

\* the four neighbours in the order of the diffusion loop: [0,1], [0,-1], [1,0], [-1,0]
DiffusionNeighbor(x, y, k) ==
  CASE k = 1 -> <<x, y + 1>> [] k = 2 -> <<x, y - 1>>
    [] k = 3 -> <<x + 1, y>> [] k = 4 -> <<x - 1, y>>

\* the outcomes of the draws Math.random() > 0.5 of line 859, one per neighbour:
\* a draw matters only where the pollution types differ
FlipDraws(g, size, x, y) ==
  IF \E k \in 1 .. 4 :
       LET n == DiffusionNeighbor(x, y, k)
       IN InGrid(n[1], n[2], size)
          /\ g[n[2]][n[1]].pollutionType # g[y][x].pollutionType
    THEN [1 .. 4 -> BOOLEAN]
    ELSE {[k \in 1 .. 4 |-> FALSE]}

\* lines 818-864 for tile (x, y): production, the water-tower scrub, diffusion and
\* decay.  No catalog entry modelled here carries a pollutionType.
TilePollution(h, size, x, y, flips) ==
  LET g == h.new
      bstats == BUILDING_STATS(g[y][x].building.type)
      \* 819-829
      produced ==
        IF bstats.defined /\ bstats.pollution # 0
          THEN IF bstats.pollution < 0
                 THEN Max(0, g[y][x].pollution + bstats.pollution * 10)
                 ELSE Min(10000, g[y][x].pollution + bstats.pollution * 5)
          ELSE g[y][x].pollution
      \* 831-840: the neighbours are written through newGrid as it stands
      isTower == g[y][x].building.type = "water_tower"
      Near(cx, cy) == /\ <<cx, cy>> # <<x, y>>
                      /\ Abs(cx - x) <= 1 /\ Abs(cy - y) <= 1
      scrubbed ==
        [cy \in DOMAIN g |-> [cx \in DOMAIN g[cy] |->
           IF cx = x /\ cy = y
             THEN [g[cy][cx] EXCEPT !.pollution = IF isTower THEN 0 ELSE produced]
           ELSE IF isTower /\ Near(cx, cy)
             THEN [g[cy][cx] EXCEPT !.pollution = Max(0, @ - 500)]
           ELSE g[cy][cx]]]
      hScrubbed == Write(h, scrubbed)
      \* 842-863
      tile == scrubbed[y][x]
      spreads == tile.pollution > 3000
      spreadAmount == IF tile.building.type = "water" THEN 400 ELSE 100
      Index(cx, cy) == CHOOSE k \in 1 .. 4 : DiffusionNeighbor(x, y, k) = <<cx, cy>>
      IsNeighbor(cx, cy) == \E k \in 1 .. 4 : DiffusionNeighbor(x, y, k) = <<cx, cy>>
      rows == IF spreads
                THEN {cy \in DOMAIN g : \E cx \in DOMAIN g[cy] : IsNeighbor(cx, cy)}
                ELSE {}
      Diffused(cx, cy) ==
        LET neighbor == scrubbed[cy][cx]
        IN IF neighbor.building.type = "water"
             THEN [neighbor EXCEPT !.pollution = Min(10000, @ + spreadAmount),
                                   !.pollutionType = tile.pollutionType]
           ELSE IF neighbor.pollution < tile.pollution
             THEN [neighbor EXCEPT
                     !.pollution = Min(10000, @ + FloorDiv(spreadAmount, 10)),
                     !.pollutionType = IF flips[Index(cx, cy)]
                                         THEN tile.pollutionType ELSE @]
           ELSE neighbor
      \* 864
      decayed ==
        [cy \in DOMAIN g |-> [cx \in DOMAIN g[cy] |->
           IF cx = x /\ cy = y
             THEN [tile EXCEPT !.pollution = FloorDiv(@ * 99, 100)]
           ELSE IF spreads /\ IsNeighbor(cx, cy) THEN Diffused(cx, cy)
           ELSE scrubbed[cy][cx]]]
  IN Write(CopyRows(hScrubbed, rows), decayed)

NoFire == [extinguish |-> FALSE, spread |-> FALSE, ignite |-> FALSE]

\* the outcomes the draws of lines 867-895 can have for tile t of newGrid
FireDraws(t, disasters) ==
  IF ~disasters THEN {NoFire}
  ELSE IF ~t.building.onFire
          /\ t.building.type \in {"grass", "water", "road", "tree", "empty"}
    THEN {NoFire}
  ELSE [extinguish : BOOLEAN, spread : BOOLEAN, ignite : BOOLEAN]

\* lines 866-895 for tile (x, y); fireProgress is in thirds
TileFireAlways(h, svc, disasters, size, x, y, fire) ==
  LET g == h.new
      t0 == g[y][x]
      fireCoverage == svc.fire[y][x]
      \* 867-872: fightingChance = fireCoverage / 300
      t1 == IF t0.building.onFire
              THEN IF fireCoverage > 0 /\ fire.extinguish
                     THEN [t0 EXCEPT !.building.onFire = FALSE,
                                     !.building.fireProgress = 0]
                   ELSE IF t0.building.fireProgress + 2 >= 300
                     THEN [t0 EXCEPT !.building = createBuilding("grass"),
                                     !.zone = "none"]
                   ELSE [t0 EXCEPT !.building.fireProgress = @ + 2]
              ELSE t0
      \* 874-891: spreadChance lies strictly between 0 and 1
      adjacentFireCount ==
        Cardinality({n \in {<<x - 1, y>>, <<x + 1, y>>, <<x, y - 1>>, <<x, y + 1>>} :
                       InGrid(n[1], n[2], size) /\ g[n[2]][n[1]].building.onFire})
      t2 == IF /\ ~t1.building.onFire
               /\ t1.building.type \notin {"grass", "water", "road", "tree", "empty",
                                           "bridge", "rail"}
               /\ adjacentFireCount > 0 /\ fire.spread
              THEN [t1 EXCEPT !.building.onFire = TRUE, !.building.fireProgress = 0]
              ELSE t1
      \* 893-895
      t3 == IF /\ ~t2.building.onFire
               /\ t2.building.type \notin {"grass", "water", "road", "tree", "empty"}
               /\ fire.ignite
              THEN [t2 EXCEPT !.building.onFire = TRUE, !.building.fireProgress = 0]
              ELSE t2
  IN Write(h, [g EXCEPT ![y][x] = t3])
\* lines 866-895 with the burnt-down tile replaced by createTile(x, y, 'grass')
TileFireFreshTile(h, svc, disasters, size, x, y, fire) ==
  LET g == h.new
      t0 == g[y][x]
      fireCoverage == svc.fire[y][x]
      \* 867-872: fightingChance = fireCoverage / 300
      t1 == IF disasters /\ t0.building.onFire
              THEN IF fireCoverage > 0 /\ fire.extinguish
                     THEN [t0 EXCEPT !.building.onFire = FALSE,
                                     !.building.fireProgress = 0]
                   ELSE IF t0.building.fireProgress + 2 >= 300
                     THEN createTile(x, y, "grass")
                   ELSE [t0 EXCEPT !.building.fireProgress = @ + 2]
              ELSE t0
      \* 874-891: spreadChance lies strictly between 0 and 1
      adjacentFireCount ==
        Cardinality({n \in {<<x - 1, y>>, <<x + 1, y>>, <<x, y - 1>>, <<x, y + 1>>} :
                       InGrid(n[1], n[2], size) /\ g[n[2]][n[1]].building.onFire})
      t2 == IF /\ disasters /\ ~t1.building.onFire
               /\ t1.building.type \notin {"grass", "water", "road", "tree", "empty",
                                           "bridge", "rail"}
               /\ adjacentFireCount > 0 /\ fire.spread
              THEN [t1 EXCEPT !.building.onFire = TRUE, !.building.fireProgress = 0]
              ELSE t1
      \* 893-895
      t3 == IF /\ disasters /\ ~t2.building.onFire
               /\ t2.building.type \notin {"grass", "water", "road", "tree", "empty"}
               /\ fire.ignite
              THEN [t2 EXCEPT !.building.onFire = TRUE, !.building.fireProgress = 0]
              ELSE t2
  IN Write(h, [g EXCEPT ![y][x] = t3])
TileFire(h, svc, disasters, size, x, y, fire) ==
  LET g == h.new
      t0 == g[y][x]
      fireCoverage == svc.fire[y][x]
      \* 867-872: fightingChance = fireCoverage / 300
      t1 == IF disasters /\ t0.building.onFire
              THEN IF fireCoverage > 0 /\ fire.extinguish
                     THEN [t0 EXCEPT !.building.onFire = FALSE,
                                     !.building.fireProgress = 0]
                   ELSE IF t0.building.fireProgress + 2 >= 300
                     THEN [t0 EXCEPT !.building = createBuilding("grass"),
                                     !.zone = "none"]
                   ELSE [t0 EXCEPT !.building.fireProgress = @ + 2]
              ELSE t0
      \* 874-891: spreadChance lies strictly between 0 and 1
      adjacentFireCount ==
        Cardinality({n \in {<<x - 1, y>>, <<x + 1, y>>, <<x, y - 1>>, <<x, y + 1>>} :
                       InGrid(n[1], n[2], size) /\ g[n[2]][n[1]].building.onFire})
      t2 == IF /\ disasters /\ ~t1.building.onFire
               /\ t1.building.type \notin {"grass", "water", "road", "tree", "empty",
                                           "bridge", "rail"}
               /\ adjacentFireCount > 0 /\ fire.spread
              THEN [t1 EXCEPT !.building.onFire = TRUE, !.building.fireProgress = 0]
              ELSE t1
      \* 893-895
      t3 == IF /\ disasters /\ ~t2.building.onFire
               /\ t2.building.type \notin {"grass", "water", "road", "tree", "empty"}
               /\ fire.ignite
              THEN [t2 EXCEPT !.building.onFire = TRUE, !.building.fireProgress = 0]
              ELSE t2
  IN Write(h, [g EXCEPT ![y][x] = t3])

\* totalTicks of line 914 for the clock as it stands, without the + newTick
TicksElapsed ==
  (year - 2024) * 12 * 30 * 30 + (month - 1) * 30 * 30 + (day - 1) * 30 + tick

\* lines 913 and 918-923: the clock after one more tick, and whether the day rolled
\* over into one divisible by 7
AdvanceClockDailyCredit(y, m, d, t) ==
  LET tick1 == t + 1
      dayRolls == tick1 >= 30
      day1 == IF dayRolls THEN d + 1 ELSE d
      monthRolls == day1 > 30
      month1 == IF monthRolls THEN m + 1 ELSE m
  IN [tick |-> IF dayRolls THEN 0 ELSE tick1,
      day |-> IF monthRolls THEN 1 ELSE day1,
      month |-> IF month1 > 12 THEN 1 ELSE month1,
      year |-> IF month1 > 12 THEN y + 1 ELSE y,
      credited |-> dayRolls]
AdvanceClockLateWrap(y, m, d, t) ==
  LET tick1 == t + 1
      dayRolls == tick1 > 30
      day1 == IF dayRolls THEN d + 1 ELSE d
      monthRolls == day1 > 30
      month1 == IF monthRolls THEN m + 1 ELSE m
  IN [tick |-> IF dayRolls THEN 0 ELSE tick1,
      day |-> IF monthRolls THEN 1 ELSE day1,
      month |-> IF month1 > 12 THEN 1 ELSE month1,
      year |-> IF month1 > 12 THEN y + 1 ELSE y,
      credited |-> dayRolls /\ day1 % 7 = 0]
AdvanceClock(y, m, d, t) ==
  LET tick1 == t + 1
      dayRolls == tick1 >= 30
      day1 == IF dayRolls THEN d + 1 ELSE d
      monthRolls == day1 > 30
      month1 == IF monthRolls THEN m + 1 ELSE m
  IN [tick |-> IF dayRolls THEN 0 ELSE tick1,
      day |-> IF monthRolls THEN 1 ELSE day1,
      month |-> IF month1 > 12 THEN 1 ELSE month1,
      year |-> IF month1 > 12 THEN y + 1 ELSE y,
      credited |-> dayRolls /\ day1 % 7 = 0]

\* simulateTick(state), lines 738-751: services, modifiedRows, and newGrid holding
\* the rows of state.grid
TickBegin ==
  /\ pc = "idle"
  /\ pc' = "scan"
  /\ pos' = 0
  /\ newGrid' = grid
  /\ modifiedRows' = {}
  /\ tickServices' = calculateServiceCoverage(grid, gridSize)
  /\ call' = [op |-> "simulateTick"]
  /\ saved' = Snapshot(grid, budget, stats, notifications, history)
  /\ inputNow' = Snapshot(grid, budget, stats, notifications, history)
  /\ ret' = "none"
  /\ UNCHANGED <<grid, gridSize, clockVars, econVars, services, logVars,
                 disastersEnabled, roadAccessVisited>>

\* the loop body (lines 755-896) for the next tile that is not skipped, the
\* outcome of Math.random() < spawnChance (line 806) being one of spawns
TickTileDrawing(spawns) ==
  /\ pc = "scan"
  /\ LET i == NextScan(grid, tickServices, gridSize, pos)
         x == i % gridSize
         y == i \div gridSize
         h0 == [new |-> newGrid, in |-> grid, mod |-> modifiedRows,
                visited |-> roadAccessVisited]
     IN /\ i < gridSize * gridSize
        /\ \E rnd \in {r \in GrowthDraws(newGrid[y][x]) :
                        r.spawn \in spawns
                        \/ \A d \in GrowthDraws(newGrid[y][x]) : ~d.spawn} :
           \E h1 \in {TileGrowth(h0, tickServices, stats.demand, gridSize, x, y, rnd)} :
           \E flips \in FlipDraws(h1.new, gridSize, x, y) :
           \E h2 \in {TilePollution(h1, gridSize, x, y, flips)} :
           \E fire \in FireDraws(h2.new[y][x], disastersEnabled) :
           \E h3 \in {TileFire(h2, tickServices, disastersEnabled, gridSize, x, y,
                               fire)} :
             /\ newGrid' = h3.new
             /\ grid' = h3.in
             /\ modifiedRows' = h3.mod
             /\ roadAccessVisited' = h3.visited
             /\ pos' = i + 1
  /\ UNCHANGED <<gridSize, clockVars, econVars, services, logVars,
                 disastersEnabled, pc, tickServices, obsVars>>

\* the loop body with every outcome of the draws
TickTile == TickTileDrawing(BOOLEAN)

\* lines 899-939 with line 920 crediting newStats.income - newStats.expenses
TickEndWholeNet ==
  /\ pc = "scan"
  /\ NextScan(grid, tickServices, gridSize, pos) >= gridSize * gridSize
  /\ \E newBudget \in {updateBudgetCosts(newGrid, budget)} :
     \E newEffectiveTaxRate \in
          {effectiveTaxRate + FloorDiv((taxRate - effectiveTaxRate) * 3, 100)} :
     \E computed \in {calculateStats(newGrid, gridSize, newBudget, taxRate,
                                     newEffectiveTaxRate, tickServices)} :
     \E clock \in {AdvanceClock(year, month, day, tick)} :
       LET prevDemand == stats.demand
           \* prev + (new - prev) * 0.12
           Smooth(prev, new) == prev + FloorDiv((new - prev) * 12, 100)
           smoothed ==
             [residential |-> Smooth(prevDemand.residential,
                                     computed.demand.residential),
              commercial  |-> Smooth(prevDemand.commercial,
                                     computed.demand.commercial),
              industrial  |-> Smooth(prevDemand.industrial,
                                     computed.demand.industrial)]
           totalTicks == TicksElapsed + 1
           newHour == FloorDiv((totalTicks % 450) * 24, 450)
           newMoney == IF clock.credited
                         THEN stats.money
                              + (computed.income - computed.expenses)
                         ELSE stats.money
           newNotifications == SubSeq(notifications, 1, Min(10, Len(notifications)))
           sample == [year |-> clock.year, month |-> clock.month,
                      population |-> computed.population, money |-> newMoney,
                      happiness |-> computed.happiness]
           pushed == Append(history, sample)
           newHistory ==
             IF clock.month % 3 = 0 /\ clock.day = 1 /\ clock.tick = 0
               THEN IF Len(pushed) > 100
                      THEN SubSeq(pushed, Len(pushed) - 99, Len(pushed))
                      ELSE pushed
               ELSE history
       IN \E newStats \in {[computed EXCEPT !.demand = smoothed,
                                            !.money = newMoney]} :
            /\ pc' = "idle"
            /\ pos' = 0
            /\ grid' = newGrid
            /\ year' = clock.year /\ month' = clock.month /\ day' = clock.day
            /\ hour' = newHour /\ tick' = clock.tick
            /\ effectiveTaxRate' = newEffectiveTaxRate
            /\ stats' = newStats
            /\ budget' = newBudget
            /\ services' = tickServices
            /\ advisorMessages' =
                 generateAdvisorMessages(newStats, tickServices, newGrid)
            /\ notifications' = newNotifications
            /\ history' = newHistory
            \* the input objects after the call: the rows of state.grid, and the
            \* budget whose category objects updateBudgetCosts wrote
            /\ inputNow' = Snapshot(grid, newBudget, stats, notifications, history)
            /\ ret' = "state"
            \* the locals of the call are gone
            /\ newGrid' = <<>> /\ modifiedRows' = {} /\ tickServices' = <<>>
            /\ UNCHANGED <<gridSize, taxRate, disastersEnabled, roadAccessVisited,
                           call, saved>>

\* lines 899-939 with history.pop() in place of history.shift() at line 932
TickEndDropsNewest ==
  /\ pc = "scan"
  /\ NextScan(grid, tickServices, gridSize, pos) >= gridSize * gridSize
  /\ \E newBudget \in {updateBudgetCosts(newGrid, budget)} :
     \E newEffectiveTaxRate \in
          {effectiveTaxRate + FloorDiv((taxRate - effectiveTaxRate) * 3, 100)} :
     \E computed \in {calculateStats(newGrid, gridSize, newBudget, taxRate,
                                     newEffectiveTaxRate, tickServices)} :
     \E clock \in {AdvanceClock(year, month, day, tick)} :
       LET prevDemand == stats.demand
           \* prev + (new - prev) * 0.12
           Smooth(prev, new) == prev + FloorDiv((new - prev) * 12, 100)
           smoothed ==
             [residential |-> Smooth(prevDemand.residential,
                                     computed.demand.residential),
              commercial  |-> Smooth(prevDemand.commercial,
                                     computed.demand.commercial),
              industrial  |-> Smooth(prevDemand.industrial,
                                     computed.demand.industrial)]
           totalTicks == TicksElapsed + 1
           newHour == FloorDiv((totalTicks % 450) * 24, 450)
           newMoney == IF clock.credited
                         THEN stats.money
                              + FloorDiv(computed.income - computed.expenses, 4)
                         ELSE stats.money
           newNotifications == SubSeq(notifications, 1, Min(10, Len(notifications)))
           sample == [year |-> clock.year, month |-> clock.month,
                      population |-> computed.population, money |-> newMoney,
                      happiness |-> computed.happiness]
           pushed == Append(history, sample)
           newHistory ==
             IF clock.month % 3 = 0 /\ clock.day = 1 /\ clock.tick = 0
               THEN IF Len(pushed) > 100
                      THEN SubSeq(pushed, 1, 100)
                      ELSE pushed
               ELSE history
       IN \E newStats \in {[computed EXCEPT !.demand = smoothed,
                                            !.money = newMoney]} :
            /\ pc' = "idle"
            /\ pos' = 0
            /\ grid' = newGrid
            /\ year' = clock.year /\ month' = clock.month /\ day' = clock.day
            /\ hour' = newHour /\ tick' = clock.tick
            /\ effectiveTaxRate' = newEffectiveTaxRate
            /\ stats' = newStats
            /\ budget' = newBudget
            /\ services' = tickServices
            /\ advisorMessages' =
                 generateAdvisorMessages(newStats, tickServices, newGrid)
            /\ notifications' = newNotifications
            /\ history' = newHistory
            \* the input objects after the call: the rows of state.grid, and the
            \* budget whose category objects updateBudgetCosts wrote
            /\ inputNow' = Snapshot(grid, newBudget, stats, notifications, history)
            /\ ret' = "state"
            \* the locals of the call are gone
            /\ newGrid' = <<>> /\ modifiedRows' = {} /\ tickServices' = <<>>
            /\ UNCHANGED <<gridSize, taxRate, disastersEnabled, roadAccessVisited,
                           call, saved>>

\* lines 899-939, once no tile is left to scan
TickEnd ==
  /\ pc = "scan"
  /\ NextScan(grid, tickServices, gridSize, pos) >= gridSize * gridSize
  /\ \E newBudget \in {updateBudgetCosts(newGrid, budget)} :
     \E newEffectiveTaxRate \in
          {effectiveTaxRate + FloorDiv((taxRate - effectiveTaxRate) * 3, 100)} :
     \E computed \in {calculateStats(newGrid, gridSize, newBudget, taxRate,
                                     newEffectiveTaxRate, tickServices)} :
     \E clock \in {AdvanceClock(year, month, day, tick)} :
       LET prevDemand == stats.demand
           \* prev + (new - prev) * 0.12
           Smooth(prev, new) == prev + FloorDiv((new - prev) * 12, 100)
           smoothed ==
             [residential |-> Smooth(prevDemand.residential,
                                     computed.demand.residential),
              commercial  |-> Smooth(prevDemand.commercial,
                                     computed.demand.commercial),
              industrial  |-> Smooth(prevDemand.industrial,
                                     computed.demand.industrial)]
           totalTicks == TicksElapsed + 1
           newHour == FloorDiv((totalTicks % 450) * 24, 450)
           newMoney == IF clock.credited
                         THEN stats.money
                              + FloorDiv(computed.income - computed.expenses, 4)
                         ELSE stats.money
           newNotifications == SubSeq(notifications, 1, Min(10, Len(notifications)))
           sample == [year |-> clock.year, month |-> clock.month,
                      population |-> computed.population, money |-> newMoney,
                      happiness |-> computed.happiness]
           pushed == Append(history, sample)
           newHistory ==
             IF clock.month % 3 = 0 /\ clock.day = 1 /\ clock.tick = 0
               THEN IF Len(pushed) > 100
                      THEN SubSeq(pushed, Len(pushed) - 99, Len(pushed))
                      ELSE pushed
               ELSE history
       IN \E newStats \in {[computed EXCEPT !.demand = smoothed,
                                            !.money = newMoney]} :
            /\ pc' = "idle"
            /\ pos' = 0
            /\ grid' = newGrid
            /\ year' = clock.year /\ month' = clock.month /\ day' = clock.day
            /\ hour' = newHour /\ tick' = clock.tick
            /\ effectiveTaxRate' = newEffectiveTaxRate
            /\ stats' = newStats
            /\ budget' = newBudget
            /\ services' = tickServices
            /\ advisorMessages' =
                 generateAdvisorMessages(newStats, tickServices, newGrid)
            /\ notifications' = newNotifications
            /\ history' = newHistory
            \* the input objects after the call: the rows of state.grid, and the
            \* budget whose category objects updateBudgetCosts wrote
            /\ inputNow' = Snapshot(grid, newBudget, stats, notifications, history)
            /\ ret' = "state"
            \* the locals of the call are gone
            /\ newGrid' = <<>> /\ modifiedRows' = {} /\ tickServices' = <<>>
            /\ UNCHANGED <<gridSize, taxRate, disastersEnabled, roadAccessVisited,
                           call, saved>>

---------------------------------------------------------------------------
(* Small towns, laid out with the tools and then left to the simulation *)

\* the grid the tools leave for a plan, plan[y + 1][x + 1] being the code of tile
\* (x, y): g grass, w water, t tree, r road, R / C / I grass zoned residential /
\* commercial / industrial, T a water tower, S a police station and P the anchor
\* of a power plant (its three filler tiles are written e)
TownGrid(plan) ==
  LET size == Len(plan)
      Code(x, y) == plan[y + 1][x + 1]
      Single(x, y) ==
        LET t == createTile(x, y, "grass")
            c == Code(x, y)
        IN CASE c = "w" -> [t EXCEPT !.building = createBuilding("water")]
             [] c = "t" -> [t EXCEPT !.building = createBuilding("tree")]
             [] c = "r" -> [t EXCEPT !.building = createBuilding("road")]
             [] c = "R" -> ZonedTile(t, "residential")
             [] c = "C" -> ZonedTile(t, "commercial")
             [] c = "I" -> ZonedTile(t, "industrial")
             [] c = "T" -> [t EXCEPT !.building = createBuilding("water_tower")]
             [] c = "S" -> [t EXCEPT !.building = createBuilding("police_station")]
             [] OTHER -> t
      singles == [y \in Coords(size) |-> [x \in Coords(size) |-> Single(x, y)]]
      RECURSIVE Plants(_, _)
      Plants(g, i) ==
        IF i >= size * size THEN g
        ELSE IF Code(i % size, i \div size) = "P"
          THEN Plants(applyBuildingFootprint(g, i % size, i \div size, "power_plant",
                                             "none", 1, [none |-> TRUE]), i + 1)
        ELSE Plants(g, i + 1)
  IN Plants(singles, 0)

\* a water tower beside an industrial tile with a road, and a town with both
\* utilities and a police station
ScrubTown == <<<<"g", "T", "g">>,
               <<"r", "I", "g">>,
               <<"g", "g", "g">>>>
UtilityTown == <<<<"P", "e", "T", "S">>,
                 <<"e", "e", "r", "g">>,
                 <<"g", "g", "g", "g">>,
                 <<"g", "g", "g", "g">>>>

\* the ticks a town is followed for, with and without disasters
TownTicks == 12
FireTicks == 3

InitTown ==
  \/ \E disasters \in BOOLEAN :
       StateWith(TownGrid(ScrubTown), Len(ScrubTown), disasters, 900, 900,
                 createInitialStats.demand)
  \/ StateWith(TownGrid(UtilityTown), Len(UtilityTown), FALSE, 900, 900,
               createInitialStats.demand)

NextTown ==
  \/ /\ TicksElapsed < (IF disastersEnabled THEN FireTicks ELSE TownTicks)
     /\ TickBegin
  \/ TickTile
  \/ TickEnd

SpecTown == InitTown /\ [][NextTown]_vars

\* a call of simulateTick has returned
TickDone == call.op = "simulateTick" /\ pc = "idle"

\* C1: simulateTick never mutates its input grid: after the call every tile and
\* building field of every row of state.grid has the value it had before it.
C1_InputGridNotMutated ==
  TickDone => inputNow.grid = saved.grid

\* C2: simulateTick never mutates the non-grid parts of its input state: after the
\* call the cost and funding of each budget category of the input, and the input's
\* stats, notifications and history, have the values they had before the call.
C2_InputStateNotMutated ==
  TickDone => /\ inputNow.budget = saved.budget
              /\ inputNow.stats = saved.stats
              /\ inputNow.notifications = saved.notifications
              /\ inputNow.history = saved.history

\* the building on tile t before and after the call, when it has kept its type
SameBuilding(t) ==
  saved.grid[t[2]][t[1]].building.type = grid[t[2]][t[1]].building.type

\* C5: across a tick, the constructionProgress of a building (same type on the same
\* tile) does not decrease and does not exceed 100, and it strictly increases
\* when the building was below 100 and the tick finds it powered and watered.
C5_ConstructionProgress ==
  TickDone =>
    \A t \in AllTiles :
      LET before == saved.grid[t[2]][t[1]].building
          after  == grid[t[2]][t[1]].building
      IN /\ after.constructionProgress <= 10000
         /\ SameBuilding(t) =>
              /\ after.constructionProgress >= before.constructionProgress
              /\ (before.constructionProgress < 10000
                  /\ after.powered /\ after.watered)
                 => after.constructionProgress > before.constructionProgress

\* a tick in which the police station, powered and watered, was built further, after
\* ticks in which it stood still for want of utilities
C5_Witness ==
  /\ TickDone
  /\ \E t \in AllTiles :
       LET before == saved.grid[t[2]][t[1]].building
           after  == grid[t[2]][t[1]].building
       IN /\ SameBuilding(t) /\ after.type = "police_station"
          /\ before.constructionProgress < 10000
          /\ after.powered /\ after.watered
          /\ after.constructionProgress > before.constructionProgress
  /\ TicksElapsed > 8

---------------------------------------------------------------------------
(* The clock, followed from createInitialGameState into the second year *)

ClockSize == 2
ClockTicks == 10835

\* grass with one tree, so that the scan has a tile to work on
ClockGrid ==
  [GrassGrid(ClockSize) EXCEPT ![0][1].building = createBuilding("tree")]

InitClock == InitialGameState(ClockGrid, ClockSize)

NextClock ==
  \/ TicksElapsed < ClockTicks /\ TickBegin
  \/ TickTile
  \/ TickEnd

SpecClock == InitClock /\ [][NextClock]_vars

ClockInRange ==
  /\ tick \in 0 .. 29 /\ day \in 1 .. 30 /\ month \in 1 .. 12 /\ year >= 2024

\* a step in which a call of simulateTick returns advances the clock by one tick,
\* and no other step changes it
ClockAdvances ==
  IF pc = "scan" /\ pc' = "idle"
    THEN /\ tick' = (tick + 1) % 30
         /\ day' = IF tick = 29 THEN (day % 30) + 1 ELSE day
         /\ month' = IF tick = 29 /\ day = 30 THEN (month % 12) + 1 ELSE month
         /\ year' = IF tick = 29 /\ day = 30 /\ month = 12 THEN year + 1 ELSE year
    ELSE UNCHANGED <<year, month, day, tick>>

\* C3: from the clock of createInitialGameState (2024, month 1, day 1, tick 0), after
\* any number of simulateTick calls 0 <= tick <= 29, 1 <= day <= 30,
\* 1 <= month <= 12 and year >= 2024; each call advances the clock by exactly one
\* tick, the day advancing exactly when tick wraps from 29 to 0, the month exactly
\* when day wraps from 30 to 1, and the year exactly when month wraps from 12 to 1.
C3_Clock == [](ClockInRange) /\ [][ClockAdvances]_vars

\* the call that wrapped tick, day and month at once and began the year 2025
C3_Witness ==
  /\ TickDone
  /\ year = 2025 /\ month = 1 /\ day = 1 /\ tick = 0

---------------------------------------------------------------------------
(* Demand, for developed cities, tax rates and earlier demands at the extremes *)

\* a completed level-5 building of the zone with its occupancy, as evolveBuilding
\* leaves it
Developed(g, x, y, type, zone) ==
  LET laid == applyBuildingFootprint(g, x, y, type, zone, 5, [none |-> TRUE])
      b == [laid[y][x].building EXCEPT !.constructionProgress = 10000,
                                       !.powered = TRUE, !.watered = TRUE]
      bstats == BUILDING_STATS(type)
  IN [laid EXCEPT ![y][x].building =
        [b EXCEPT !.population = Occupancy(bstats.maxPop, b),
                  !.jobs = Occupancy(bstats.maxJobs, b)]]

StatsSize == 4

StatsGrids ==
  LET land == [GrassGrid(StatsSize) EXCEPT ![3][3].building = createBuilding("tree")]
      Offices(g, x) == Developed(g, x, 0, "office_high", "commercial")
      Homes(g, x) == Developed(g, x, 2, "apartment_high", "residential")
  IN {land, Offices(Offices(land, 0), 2), Homes(Homes(land, 0), 2),
      Offices(Homes(land, 0), 0)}

\* tax rates of 0, 9 and 100 percent
StatsRates == {0, 900, 10000}

StatsDemands ==
  {createInitialStats.demand}
  \cup {[residential |-> d, commercial |-> d, industrial |-> d] : d \in {-10000, 10000}}

StatsTicks == 2

\* a call of calculateStats on the parts of the state
CallCalculateStats ==
  /\ pc = "idle"
  /\ call' = [op |-> "calculateStats"]
  /\ ret' = calculateStats(grid, gridSize, budget, taxRate, effectiveTaxRate, services)
  /\ UNCHANGED <<saved, inputNow>>
  /\ UNCHANGED <<grid, gridSize, clockVars, econVars, services, logVars,
                 disastersEnabled, roadAccessVisited, scanVars>>

InitStats ==
  \E g \in StatsGrids, rate \in StatsRates, effectiveRate \in StatsRates,
     demand \in StatsDemands :
    StateWith(g, StatsSize, FALSE, rate, effectiveRate, demand)

NextStats ==
  \/ CallCalculateStats
  \/ TicksElapsed < StatsTicks /\ TickBegin
  \/ TickTile
  \/ TickEnd

SpecStats == InitStats /\ [][NextStats]_vars

DemandInRange(demand) ==
  /\ demand.residential >= -10000 /\ demand.residential <= 10000
  /\ demand.commercial >= -10000 /\ demand.commercial <= 10000
  /\ demand.industrial >= -10000 /\ demand.industrial <= 10000

\* C4: each of the three demand values returned by calculateStats lies in
\* [-100, 100]; and if the demand triple of the input state lies in [-100, 100], the
\* smoothed demand triple of the state returned by simulateTick does too.
C4_DemandClamped ==
  /\ call.op = "calculateStats" => DemandInRange(ret.demand)
  /\ (TickDone /\ DemandInRange(saved.stats.demand)) => DemandInRange(stats.demand)

\* a tick of a city of apartments under a tax rate of 0: the commercial demand that
\* calculateStats returns for the new state is cut at 100, the earlier demand was
\* 100, and the smoothed demand is 100
C4_Witness ==
  /\ TickDone
  /\ saved.stats.demand.commercial = 10000
  /\ calculateStats(grid, gridSize, budget, taxRate, effectiveTaxRate,
                    services).demand.commercial = 10000
  /\ stats.demand.commercial = 10000
  /\ stats.population > 0

---------------------------------------------------------------------------
(* Development of a residential district *)

\* a 3 x 3 residential district ringed by roads, with a power plant and a water
\* tower beside it
DistrictPlan == <<<<"r", "r", "r", "r", "r", "P", "e">>,
                  <<"r", "R", "R", "R", "r", "e", "e">>,
                  <<"r", "R", "R", "R", "r", "T", "g">>,
                  <<"r", "R", "R", "R", "r", "g", "g">>,
                  <<"r", "r", "r", "r", "r", "g", "g">>,
                  <<"g", "g", "g", "g", "g", "g", "g">>,
                  <<"g", "g", "g", "g", "g", "g", "g">>>>
Region == {<<x, y>> : x \in 1 .. 3, y \in 1 .. 3}

\* the district once the plant and the tower are complete and the ticks have set
\* the utility flags of every tile (lines 770-771)
DistrictGrid ==
  LET size == Len(DistrictPlan)
      laid == TownGrid(DistrictPlan)
      built == [y \in Coords(size) |-> [x \in Coords(size) |->
                  [laid[y][x] EXCEPT !.building.constructionProgress = 10000]]]
      svc == calculateServiceCoverage(built, size)
  IN [y \in Coords(size) |-> [x \in Coords(size) |->
        [built[y][x] EXCEPT !.building.powered = svc.power[y][x],
                            !.building.watered = svc.water[y][x]]]]

\* tax rates of 9 and 30 percent, and residential demands of -29 and 50
DistrictRates == {900, 3000}
DistrictDemands == {-2900, 5000}

\* the ticks the district is followed for
DistrictTicks == 12
\* the ticks for which the spawn draws of an empty district may all miss
MaxMisses == 2
\* the buildings the spawn draws may put into the district
MaxSpawns == 1

InitDistrict ==
  \E rate \in DistrictRates, d \in DistrictDemands :
    StateWith(DistrictGrid, Len(DistrictPlan), FALSE, rate, rate,
              [createInitialStats.demand EXCEPT !.residential = d])

\* the tiles of the district that are no longer grass
Built(g) == {c \in Region : g[c[2]][c[1]].building.type # "grass"}

\* some tile of the district holds a completed building with population > 0
RegionDeveloped ==
  \E c \in Region :
    LET b == grid[c[2]][c[1]].building
    IN /\ b.type \notin {"grass", "empty"}
       /\ b.constructionProgress >= 10000
       /\ b.population > 0

\* the loop body for the next tile under fair draws: Math.random() < spawnChance
\* (line 806) does not fail for ever while spawnChance is positive.  In an empty
\* district the draws may all miss in the first MaxMisses ticks; after that a
\* draw that can hit does.
DistrictTile ==
  /\ pc = "scan"
  /\ TickTileDrawing(IF Built(newGrid) = {} /\ TicksElapsed >= MaxMisses
                       THEN {TRUE} ELSE BOOLEAN)
  /\ \E i \in {NextScan(grid, tickServices, gridSize, pos)} :
     \E x \in {i % gridSize}, y \in {i \div gridSize} :
       (newGrid[y][x].building.type = "grass"
        /\ newGrid'[y][x].building.type # "grass")
         => Cardinality(Built(newGrid)) < MaxSpawns

NextDistrict ==
  \/ /\ TicksElapsed < DistrictTicks
     /\ ~RegionDeveloped
     /\ TickBegin
  \/ DistrictTile
  \/ TickEnd

\* the game loop calls simulateTick again and again
SpecDistrict == InitDistrict /\ [][NextDistrict]_vars /\ WF_vars(NextDistrict)

\* the residential demand has left the range in which spawnChance is positive
DemandLow == stats.demand.residential <= -3000

\* the last tick the district is followed for has returned
TicksOver == pc = "idle" /\ TicksElapsed = DistrictTicks

\* C6 as stated: from a state with a 3 x 3 all-grass residential district bordered
\* by roads, powered and watered, with residential demand above -30, repeated
\* ticks with fair draws and without fire eventually reach a state in which some
\* tile of the district holds a completed building with population > 0.  The
\* ticks go on until such a state is reached, so the district is no longer
\* being ticked only when it is developed.
C6_Original == TicksOver => RegionDeveloped

\* C6: from such a state, repeated ticks with fair draws and without fire
\* eventually reach a state in which some tile of the district holds a completed
\* building with population > 0, unless the residential demand falls to -30 or
\* below: the district is no longer being ticked only when it is developed or
\* the demand is that low.
C6_Development == TicksOver => (RegionDeveloped \/ DemandLow)

\* the district developed under a tax rate of 9 percent after the draws of the
\* first MaxMisses ticks had all missed
C6_Witness ==
  /\ TickDone /\ RegionDeveloped /\ ~DemandLow
  /\ taxRate = 900
  /\ TicksElapsed >= MaxMisses + 7

---------------------------------------------------------------------------
(* Cities whose water runs are broken: interrupted, already bridged, open to the
   grid edge, or too long *)

\* one line of a city: "t" a tile of the city's track type, "o" one of the other
\* track type, "w" water, "g" grass
BrokenLines ==
  { <<"t", "w", "w", "o", "w", "t">>,
    <<"g", "w", "w", "t", "w", "t">>,
    <<"w", "w", "t", "w", "w", "w", "t", "g", "g", "g", "t", "w", "w">>,
    <<"g", "t", "w", "w", "w", "w", "w", "w", "w", "w", "w", "w", "t">>,
    <<"t", "w", "w", "w", "w", "w", "w", "w", "w", "w", "w", "w", "t">> }

\* lines that are also crossed
CrossedLines ==
  { <<"t", "w", "g", "w", "t">>,
    <<"t", "w", "w", "t", "w", "g", "w", "t">> }

\* the line along row or column 1; cross adds track tiles on both sides of its
\* second tile, which closes a run of one water tile across the line
BrokenGrid(codes, o, track, cross) ==
  [y \in Coords(BridgeSize) |-> [x \in Coords(BridgeSize) |->
     LET t == createTile(x, y, "grass")
         k == IF o = "h" THEN x ELSE y
         line == IF o = "h" THEN y ELSE x
         other == IF track = "road" THEN "rail" ELSE "road"
     IN IF line = 1 /\ k + 1 \in DOMAIN codes
          THEN IF codes[k + 1] = "t" THEN BuiltTile(t, track, "none")
               ELSE IF codes[k + 1] = "o" THEN BuiltTile(t, other, "none")
               ELSE IF codes[k + 1] = "w" THEN BuiltTile(t, "water", "none")
               ELSE t
        ELSE IF cross /\ k = 1 /\ line \in {0, 2}
          THEN BuiltTile(t, track, "none")
        ELSE t]]

BrokenGrids ==
  {BrokenGrid(codes, c[1], c[2], FALSE) :
     codes \in BrokenLines \cup CrossedLines,
     c \in {<<"h", "road">>, <<"v", "rail">>}}
  \cup {BrokenGrid(codes, c[1], c[2], TRUE) :
           codes \in CrossedLines, c \in {<<"h", "rail">>, <<"v", "road">>}}

\* the paths a player can drag: from an end of the line along it, and across the
\* line over its second tile; a path over grass alone is left out
BrokenPaths ==
  {path \in {DragPath(TileAt(o, 1, e), TileAt(o, 1, k)) :
               o \in {"h", "v"}, e \in {0, gridSize - 1}, k \in Coords(gridSize)}
             \cup {DragPath(TileAt(o, 1, e), TileAt(o, 1, 2 - e)) :
                     o \in {"h", "v"}, e \in {0, 2}} :
     /\ Len(path) > 1
     /\ \E i \in DOMAIN path : grid[path[i].y][path[i].x].building.type # "grass"}

InitBroken == \E g \in BrokenGrids : InitialGameState(g, BridgeSize)

NextBroken ==
  \E pathTiles \in BrokenPaths, trackType \in {"road", "rail"} :
    createBridgesOnPath(pathTiles, trackType)

SpecBroken == InitBroken /\ [][NextBroken]_vars

\* the tiles that are bridge tiles now and were none before the call
NewBridgeTiles ==
  {t \in AllTiles : /\ grid[t[2]][t[1]].building.type = "bridge"
                    /\ saved.grid[t[2]][t[1]].building.type # "bridge"}

\* the straight runs of the grid before the call that lie along direction o through
\* tile t, consist of one to ten tiles, all water, and have a tile of the track
\* type of the call in the grid at both ends
SoundRuns(o, t) ==
  {r \in [o : {o}, line : {IF o = "h" THEN t[2] ELSE t[1]},
          start : Coords(gridSize), n : 1 .. 10] :
     /\ r.start + r.n + 1 <= gridSize - 1
     /\ \A u \in StrokeTracks(r) : saved.grid[u[2]][u[1]].building.type = call.trackType
     /\ \A u \in StrokeWater(r) : saved.grid[u[2]][u[1]].building.type = "water"}

\* the direction of the line a bridge tile's bridge was laid along: scans along x
\* label their bridges 'ns', scans along y 'ew'
LaidAlong(t) ==
  IF grid[t[2]][t[1]].building.bridgeOrientation = "ns" THEN "h" ELSE "v"

\* C11: createBridgesOnPath creates no bridge tile on a water run that is
\* interrupted by a tile that is neither water nor the track type, that contains a
\* bridge tile, that no tile of the track type closes before the grid edge, or that
\* is longer than ten tiles: every tile it makes a bridge tile was water and lies,
\* along the line of its bridge, on a run of one to ten water tiles with a tile of
\* the track type at both ends; no other tile changes.
C11_NoBridgeOnBrokenRun ==
  call.op = "createBridgesOnPath" =>
    /\ \A t \in NewBridgeTiles :
         /\ saved.grid[t[2]][t[1]].building.type = "water"
         /\ \E r \in SoundRuns(LaidAlong(t), t) : t \in StrokeWater(r)
    /\ \A t \in AllTiles \ NewBridgeTiles : grid[t[2]][t[1]] = saved.grid[t[2]][t[1]]

\* the tiles of the path that were water before the call and lay on no sound run
\* along the path
BrokenWaterOnPath ==
  {t \in PathSet :
     /\ saved.grid[t[2]][t[1]].building.type = "water"
     /\ LET o == IF call.pathTiles[1].y = call.pathTiles[Len(call.pathTiles)].y
                 THEN "h" ELSE "v"
        IN \A r \in SoundRuns(o, t) : t \notin StrokeWater(r)}

\* a path over a sound run and over a run that a grass tile interrupts has bridged
\* the first and left the water of the second
C11_Witness ==
  /\ call.op = "createBridgesOnPath"
  /\ NewBridgeTiles # {}
  /\ \E t \in BrokenWaterOnPath :
       /\ grid[t[2]][t[1]].building.type = "water"
       /\ \E u \in PathSet : /\ saved.grid[u[2]][u[1]].building.type = "grass"
                             /\ Abs(u[1] - t[1]) + Abs(u[2] - t[2]) = 1

---------------------------------------------------------------------------
(* 12. expandGrid and shrinkGrid *)

\* the result of expandGrid and shrinkGrid; null |-> TRUE stands for null
ResizeNull == [null |-> TRUE, grid |-> <<>>, newSize |-> 0]

expandGrid(currentGrid, currentSize, expansion) ==
  LET newSize == currentSize + expansion * 2
  IN [null |-> FALSE, newSize |-> newSize,
      grid |-> [y \in Coords(newSize) |-> [x \in Coords(newSize) |->
                 LET oldX == x - expansion
                     oldY == y - expansion
                     wasInOldGrid == /\ oldX >= 0 /\ oldY >= 0
                                     /\ oldX < currentSize /\ oldY < currentSize
                 IN IF wasInOldGrid
                      THEN [currentGrid[oldY][oldX] EXCEPT !.x = x, !.y = y]
                      ELSE createTile(x, y, "grass")]]]

shrinkGridStaleXY(currentGrid, currentSize, shrinkAmount) ==
  LET newSize == currentSize - shrinkAmount * 2
  IN IF newSize < 20 THEN ResizeNull
     ELSE [null |-> FALSE, newSize |-> newSize,
           grid |-> [y \in Coords(newSize) |-> [x \in Coords(newSize) |->
                      currentGrid[y + shrinkAmount][x + shrinkAmount]]]]
shrinkGrid(currentGrid, currentSize, shrinkAmount) ==
  LET newSize == currentSize - shrinkAmount * 2
  IN IF newSize < 20 THEN ResizeNull
     ELSE [null |-> FALSE, newSize |-> newSize,
           grid |-> [y \in Coords(newSize) |-> [x \in Coords(newSize) |->
                      [currentGrid[y + shrinkAmount][x + shrinkAmount]
                         EXCEPT !.x = x, !.y = y]]]]

\* expandGrid(state.grid, state.gridSize, expansion)
CallExpandGrid(expansion) ==
  /\ pc = "idle"
  /\ call' = [op |-> "expandGrid", amount |-> expansion]
  /\ saved' = grid
  /\ ret' = expandGrid(grid, gridSize, expansion)
  /\ inputNow' = grid
  /\ UNCHANGED <<grid, gridSize, clockVars, econVars, services, logVars,
                 disastersEnabled, roadAccessVisited, scanVars>>

\* shrinkGrid(expanded.grid, expanded.newSize, shrinkAmount) for the result
\* expanded of the expandGrid call before
CallShrinkGrid(shrinkAmount) ==
  /\ pc = "idle"
  /\ call.op = "expandGrid"
  /\ call' = [op |-> "shrinkGrid", amount |-> shrinkAmount, expansion |-> call.amount]
  /\ saved' = ret.grid
  /\ ret' = shrinkGrid(ret.grid, ret.newSize, shrinkAmount)
  /\ inputNow' = ret.grid
  /\ UNCHANGED <<grid, gridSize, clockVars, econVars, services, logVars,
                 disastersEnabled, roadAccessVisited, scanVars>>

\* cities of MaxResize - 2 .. MaxResize tiles a side with one developed tile
MaxResize == 21
MaxExpansion == 2

ResizeTiles(size) ==
  {<<0, 0>>, <<size - 1, 0>>, <<0, size - 1>>, <<size - 1, size - 1>>, <<7, 11>>}

ResizeGrid(size, at, kind) ==
  [y \in Coords(size) |-> [x \in Coords(size) |->
     LET t == createTile(x, y, "grass")
     IN IF <<x, y>> # at THEN t
        ELSE CASE kind = "house" ->
                    [BuiltTile(t, "house_small", "residential") EXCEPT
                       !.landValue = 63, !.pollution = 1250, !.hasSubway = TRUE]
               [] kind = "rail" ->
                    [BuiltTile(t, "road", "none") EXCEPT !.hasRailOverlay = TRUE]
               [] OTHER -> BuiltTile(t, "water", "none")]]

InitResize ==
  \E size \in (MaxResize - 2) .. MaxResize :
    \E at \in ResizeTiles(size), kind \in {"house", "rail", "water"} :
      InitialGameState(ResizeGrid(size, at, kind), size)

NextResize ==
  \/ \E expansion \in 0 .. MaxExpansion : CallExpandGrid(expansion)
  \/ \E shrinkAmount \in 0 .. MaxExpansion : CallShrinkGrid(shrinkAmount)

SpecResize == InitResize /\ [][NextResize]_vars

\* the last call was shrinkGrid(expandGrid(grid, s, e).grid, s + 2e, e)
RoundTrip == call.op = "shrinkGrid" /\ call.amount = call.expansion

\* C12 as stated: for every grid of size s and every e >= 0,
\* shrinkGrid(expandGrid(grid, s, e).grid, s + 2e, e) returns a grid of size s whose
\* tile at every original coordinate has the contents it had; neither call changes
\* its input grid.
C12_Original ==
  /\ RoundTrip => ~ret.null /\ ret.newSize = gridSize /\ ret.grid = grid
  /\ call.op \in {"expandGrid", "shrinkGrid"} => inputNow = saved

\* C12: the same for s >= 20; for s < 20 shrinkGrid returns null.
C12_RoundTrip ==
  /\ RoundTrip =>
       IF gridSize >= 20
         THEN ~ret.null /\ ret.newSize = gridSize /\ ret.grid = grid
         ELSE ret.null
  /\ call.op \in {"expandGrid", "shrinkGrid"} => inputNow = saved

\* a city of 20 tiles a side with a house in its far corner came back from an
\* expansion by 2 tiles a side
C12_Witness ==
  /\ RoundTrip /\ call.amount = 2 /\ gridSize = 20
  /\ grid[19][19].building.type = "house_small"
  /\ ret.grid = grid /\ saved[21][21].building.type = "house_small"

---------------------------------------------------------------------------
(* 13. getWaterAdjacency *)

\* grid[y]?.[x]?.building.type === 'water'
IsWaterAt(g, x, y) ==
  y \in DOMAIN g /\ x \in DOMAIN g[y] /\ g[y][x].building.type = "water"

getWaterAdjacencyNeverFlipped(g, x, y, width, height, size) ==
  LET south == \E dx \in 0 .. (width - 1) :
                 y + height < size /\ IsWaterAt(g, x + dx, y + height)
      east  == \E dy \in 0 .. (height - 1) :
                 x + width < size /\ IsWaterAt(g, x + width, y + dy)
      north == \E dx \in 0 .. (width - 1) :
                 y - 1 >= 0 /\ IsWaterAt(g, x + dx, y - 1)
      west  == \E dy \in 0 .. (height - 1) :
                 x - 1 >= 0 /\ IsWaterAt(g, x - 1, y + dy)
  IN [hasWater |-> south \/ east \/ north \/ west, shouldFlip |-> FALSE]
getWaterAdjacency(g, x, y, width, height, size) ==
  LET south == \E dx \in 0 .. (width - 1) :
                 y + height < size /\ IsWaterAt(g, x + dx, y + height)
      east  == \E dy \in 0 .. (height - 1) :
                 x + width < size /\ IsWaterAt(g, x + width, y + dy)
      waterOnSouthOrEast == south \/ (~south /\ east)
      north == \E dx \in 0 .. (width - 1) :
                 y - 1 >= 0 /\ IsWaterAt(g, x + dx, y - 1)
      west  == \E dy \in 0 .. (height - 1) :
                 x - 1 >= 0 /\ IsWaterAt(g, x - 1, y + dy)
      waterOnNorthOrWest == north \/ (~north /\ west)
      hasWater == waterOnSouthOrEast \/ waterOnNorthOrWest
  IN [hasWater |-> hasWater,
      shouldFlip |-> hasWater /\ waterOnNorthOrWest /\ ~waterOnSouthOrEast]

\* a call of getWaterAdjacency(state.grid, x, y, width, height, state.gridSize)
CallGetWaterAdjacency(x, y, width, height) ==
  /\ pc = "idle"
  /\ call' = [op |-> "getWaterAdjacency", x |-> x, y |-> y, width |-> width,
              height |-> height]
  /\ ret' = getWaterAdjacency(grid, x, y, width, height, gridSize)
  /\ UNCHANGED <<grid, gridSize, clockVars, econVars, services, logVars,
                 disastersEnabled, roadAccessVisited, scanVars, saved, inputNow>>

\* shores: cities of ShoreSize tiles a side with water on some of six tiles, and
\* footprints of up to MaxFootprint tiles a side anywhere in them
ShoreSize == 4
MaxFootprint == 2

ShoreTiles == {<<0, 0>>, <<1, 0>>, <<0, 1>>, <<2, 1>>, <<1, 2>>,
               <<ShoreSize - 1, ShoreSize - 1>>}

ShoreGrid(water) ==
  [y \in Coords(ShoreSize) |-> [x \in Coords(ShoreSize) |->
     IF <<x, y>> \in water THEN BuiltTile(createTile(x, y, "grass"), "water", "none")
     ELSE createTile(x, y, "grass")]]

InitShore == \E water \in SUBSET ShoreTiles : InitialGameState(ShoreGrid(water), ShoreSize)

NextShore ==
  \E x \in Coords(gridSize), y \in Coords(gridSize) :
    \E width \in 1 .. MaxFootprint, height \in 1 .. MaxFootprint :
      CallGetWaterAdjacency(x, y, width, height)

SpecShore == InitShore /\ [][NextShore]_vars

\* the tiles of the grid that are water and lie in the row below or the column
\* right of the footprint of the last call, and in the row above or the column left
WaterBelowOrRight ==
  {t \in AllTiles :
     /\ grid[t[2]][t[1]].building.type = "water"
     /\ \/ t[2] = call.y + call.height /\ t[1] \in call.x .. (call.x + call.width - 1)
        \/ t[1] = call.x + call.width /\ t[2] \in call.y .. (call.y + call.height - 1)}
WaterAboveOrLeft ==
  {t \in AllTiles :
     /\ grid[t[2]][t[1]].building.type = "water"
     /\ \/ t[2] = call.y - 1 /\ t[1] \in call.x .. (call.x + call.width - 1)
        \/ t[1] = call.x - 1 /\ t[2] \in call.y .. (call.y + call.height - 1)}

\* C13: getWaterAdjacency returns hasWater exactly when some tile of the grid that
\* is edge-adjacent to the footprint (row below, column right, row above, column
\* left) is water, and shouldFlip exactly when there is such water on the row
\* above or the column left and none on the row below or the column right.
C13_WaterAdjacency ==
  call.op = "getWaterAdjacency" =>
    /\ ret.hasWater <=> (WaterBelowOrRight # {} \/ WaterAboveOrLeft # {})
    /\ ret.shouldFlip <=> (WaterAboveOrLeft # {} /\ WaterBelowOrRight = {})

\* a 2 x 2 footprint with water only on the tile left of its first row
C13_Witness ==
  /\ call.op = "getWaterAdjacency"
  /\ call.width = 2 /\ call.height = 2 /\ call.x = 1 /\ call.y = 1
  /\ WaterAboveOrLeft = {<<0, 1>>} /\ WaterBelowOrRight = {}
  /\ ret.hasWater /\ ret.shouldFlip

---------------------------------------------------------------------------
(* 14. The editing tools: placeBuilding, bulldozeTile, subway and terraforming *)

\* what a tool leaves besides the grid: it returns its input state itself ("input")
\* or a copy of it with a new grid ("copy")
ToolReturns(op, x, y, buildingType, zone, result) ==
  /\ pc = "idle"
  /\ call' = [op |-> op, x |-> x, y |-> y, buildingType |-> buildingType,
              zone |-> zone]
  /\ saved' = Snapshot(grid, budget, stats, notifications, history)
  /\ inputNow' = Snapshot(grid, budget, stats, notifications, history)
  /\ ret' = IF result.same THEN "input" ELSE "copy"
  /\ grid' = IF result.same THEN grid ELSE result.grid
  /\ UNCHANGED <<gridSize, clockVars, econVars, services, logVars,
                 disastersEnabled, roadAccessVisited, scanVars>>

Same == [same |-> TRUE, grid |-> <<>>]
Copy(g) == [same |-> FALSE, grid |-> g]

\* the loops that clear the footprint of the building of origin to grass
ClearFootprint(g, origin, size, dropRailOverlay) ==
  LET cells == {c \in Footprint(origin.originX, origin.originY,
                                getBuildingSize(origin.buildingType).width,
                                getBuildingSize(origin.buildingType).height) :
                  c[1] < size /\ c[2] < size}
  IN [cy \in DOMAIN g |-> [cx \in DOMAIN g[cy] |->
        IF <<cx, cy>> \in cells
          THEN [g[cy][cx] EXCEPT
                  !.building = createBuilding("grass"), !.zone = "none",
                  !.hasRailOverlay = IF dropRailOverlay THEN FALSE ELSE @]
          ELSE g[cy][cx]]]

\* placeBuilding(state, x, y, buildingType, zone); "null" stands for null
placeBuildingResult(g, size, x, y, buildingType, zone) ==
  IF ~InGrid(x, y, size) THEN Same
  ELSE
    LET tile == g[y][x]
        type == tile.building.type
        origin == findBuildingOrigin(g, x, y, size)
        bsize == getBuildingSize(buildingType)
        waterCheck == getWaterAdjacency(g, x, y, bsize.width, bsize.height, size)
        shouldFlip == requiresWaterAdjacency(buildingType) /\ waterCheck.shouldFlip
        Flipped(g2) == IF shouldFlip THEN [g2 EXCEPT ![y][x].building.flipped = TRUE]
                       ELSE g2
    IN IF type = "water" THEN Same
       ELSE IF buildingType = "road" /\ type \notin {"grass", "tree", "road", "rail"}
         THEN Same
       ELSE IF buildingType = "rail" /\ type \notin {"grass", "tree", "rail", "road"}
         THEN Same
       ELSE IF buildingType \notin {"null", "road", "rail"}
               /\ type \in {"road", "bridge"}
         THEN Same
       ELSE IF buildingType \notin {"null", "road", "rail"} /\ type = "rail"
         THEN Same
       ELSE IF zone # "null"
         THEN IF zone = "none"
                THEN IF origin.found THEN Copy(ClearFootprint(g, origin, size, FALSE))
                     ELSE IF tile.zone = "none" THEN Same
                     ELSE Copy([g EXCEPT ![y][x].zone = "none",
                                         ![y][x].building = createBuilding("grass")])
              ELSE IF type \notin {"grass", "tree", "road"} THEN Same
              ELSE Copy([g EXCEPT ![y][x].zone = zone])
       ELSE IF buildingType # "null"
         THEN IF requiresWaterAdjacency(buildingType) /\ ~waterCheck.hasWater
                THEN Same
              ELSE IF bsize.width > 1 \/ bsize.height > 1
                THEN IF ~canPlaceMultiTileBuilding(g, x, y, bsize.width,
                                                   bsize.height, size)
                       THEN Same
                     ELSE Copy(Flipped(applyBuildingFootprint(
                                 g, x, y, buildingType, "none", 1,
                                 [none |-> TRUE])))
              ELSE IF type \notin {"grass", "tree", "road", "rail"} THEN Same
              ELSE IF buildingType = "rail" /\ type = "road"
                THEN Copy(Flipped([g EXCEPT ![y][x].hasRailOverlay = TRUE]))
              ELSE IF buildingType = "road" /\ type = "rail"
                THEN Copy(Flipped([g EXCEPT ![y][x].building = createBuilding("road"),
                                            ![y][x].hasRailOverlay = TRUE,
                                            ![y][x].zone = "none"]))
              ELSE IF buildingType \in {"rail", "road"} /\ tile.hasRailOverlay
                THEN Copy(Flipped(g))
              ELSE Copy(Flipped(
                     [g EXCEPT ![y][x].building = createBuilding(buildingType),
                               ![y][x].zone = "none",
                               ![y][x].hasRailOverlay =
                                  IF buildingType # "road" THEN FALSE ELSE @]))
       ELSE Copy(g)

placeBuilding(x, y, buildingType, zone) ==
  ToolReturns("placeBuilding", x, y, buildingType, zone,
              placeBuildingResult(grid, gridSize, x, y, buildingType, zone))

\* findConnectedBridgeTiles, as the set of the tiles it returns
RECURSIVE BridgeWalk(_, _, _, _, _, _, _)
BridgeWalk(g, size, cx, cy, dx, dy, orientation) ==
  IF InGrid(cx, cy, size) /\ g[cy][cx].building.type = "bridge"
     /\ g[cy][cx].building.bridgeOrientation = orientation
    THEN {<<cx, cy>>} \cup BridgeWalk(g, size, cx + dx, cy + dy, dx, dy, orientation)
    ELSE {}

findConnectedBridgeTiles(g, size, x, y) ==
  IF ~InGrid(x, y, size) \/ g[y][x].building.type # "bridge" THEN {}
  ELSE LET own == g[y][x].building.bridgeOrientation
           orientation == IF own = "none" THEN "ns" ELSE own
           dx == IF orientation = "ns" THEN 1 ELSE 0
           dy == IF orientation = "ns" THEN 0 ELSE 1
       IN {<<x, y>>} \cup BridgeWalk(g, size, x + dx, y + dy, dx, dy, orientation)
                     \cup BridgeWalk(g, size, x - dx, y - dy, -dx, -dy, orientation)

\* findAdjacentBridgeTiles, from the k-th direction on
RECURSIVE findAdjacentBridgeTiles(_, _, _, _, _)
findAdjacentBridgeTiles(g, size, x, y, k) ==
  IF k > 4 THEN {}
  ELSE LET nx == CASE k = 1 -> x - 1 [] k = 2 -> x + 1 [] OTHER -> x
           ny == CASE k = 3 -> y - 1 [] k = 4 -> y + 1 [] OTHER -> y
       IN IF InGrid(nx, ny, size) /\ g[ny][nx].building.type = "bridge"
             /\ g[ny][nx].building.bridgePosition \in {"start", "end"}
            THEN findConnectedBridgeTiles(g, size, nx, ny)
            ELSE findAdjacentBridgeTiles(g, size, x, y, k + 1)

\* the tiles of set cells made water, as bulldozeTile does with bridge tiles
Flooded(g, cells) ==
  [cy \in DOMAIN g |-> [cx \in DOMAIN g[cy] |->
     IF <<cx, cy>> \in cells
       THEN [g[cy][cx] EXCEPT !.building = createBuilding("water"), !.zone = "none",
                              !.hasRailOverlay = FALSE]
       ELSE g[cy][cx]]]

Grassed(g, x, y) ==
  [g EXCEPT ![y][x].building = createBuilding("grass"), ![y][x].zone = "none",
            ![y][x].hasRailOverlay = FALSE]

bulldozeTileResult(g, size, x, y) ==
  IF ~InGrid(x, y, size) THEN Same
  ELSE LET type == g[y][x].building.type
           origin == findBuildingOrigin(g, x, y, size)
       IN IF type = "water" THEN Same
          ELSE IF type = "bridge"
            THEN Copy(Flooded(g, findConnectedBridgeTiles(g, size, x, y)))
          ELSE IF type = "road" /\ findAdjacentBridgeTiles(g, size, x, y, 1) # {}
            THEN Copy(Flooded(Grassed(g, x, y),
                              findAdjacentBridgeTiles(g, size, x, y, 1)))
          ELSE IF origin.found THEN Copy(ClearFootprint(g, origin, size, TRUE))
          ELSE Copy(Grassed(g, x, y))

bulldozeTile(x, y) ==
  ToolReturns("bulldozeTile", x, y, "null", "null",
              bulldozeTileResult(grid, gridSize, x, y))

placeSubway(x, y) ==
  ToolReturns("placeSubway", x, y, "null", "null",
    IF ~InGrid(x, y, gridSize) THEN Same
    ELSE IF grid[y][x].building.type = "water" \/ grid[y][x].hasSubway THEN Same
    ELSE Copy([grid EXCEPT ![y][x].hasSubway = TRUE]))

removeSubway(x, y) ==
  ToolReturns("removeSubway", x, y, "null", "null",
    IF ~InGrid(x, y, gridSize) THEN Same
    ELSE IF ~grid[y][x].hasSubway THEN Same
    ELSE Copy([grid EXCEPT ![y][x].hasSubway = FALSE]))

placeWaterTerraformResult(g, size, x, y) ==
  IF ~InGrid(x, y, size) THEN Same
  ELSE IF g[y][x].building.type \in {"water", "bridge"} THEN Same
  ELSE LET origin == findBuildingOrigin(g, x, y, size)
           cleared == IF origin.found THEN ClearFootprint(g, origin, size, FALSE)
                      ELSE g
       IN Copy([cleared EXCEPT ![y][x].building = createBuilding("water"),
                               ![y][x].zone = "none",
                               ![y][x].hasSubway = FALSE])

placeWaterTerraform(x, y) ==
  ToolReturns("placeWaterTerraform", x, y, "null", "null",
              placeWaterTerraformResult(grid, gridSize, x, y))

placeLandTerraformClamped(x, y) ==
  ToolReturns("placeLandTerraform", x, y, "null", "null",
    LET cx == Max(0, Min(gridSize - 1, x))
        cy == Max(0, Min(gridSize - 1, y))
    IN IF grid[cy][cx].building.type # "water" THEN Same
       ELSE Copy([grid EXCEPT ![cy][cx].building = createBuilding("grass"),
                              ![cy][cx].zone = "none"]))
placeLandTerraform(x, y) ==
  ToolReturns("placeLandTerraform", x, y, "null", "null",
    IF ~InGrid(x, y, gridSize) THEN Same
    ELSE IF grid[y][x].building.type # "water" THEN Same
    ELSE Copy([grid EXCEPT ![y][x].building = createBuilding("grass"),
                           ![y][x].zone = "none"]))

---------------------------------------------------------------------------
(* A city laid out with the tools, and one more use of a tool *)

\* the edits of a script applied in turn with placeBuilding, from the i-th on
RECURSIVE Laid(_, _, _, _)
Laid(g, size, edits, i) ==
  IF i > Len(edits) THEN g
  ELSE Laid(IF placeBuildingResult(g, size, edits[i][1], edits[i][2], edits[i][3],
                                   edits[i][4]).same
              THEN g
              ELSE placeBuildingResult(g, size, edits[i][1], edits[i][2],
                                       edits[i][3], edits[i][4]).grid,
            size, edits, i + 1)

ToolPlan == <<<<"w", "w", "g", "g", "g", "g">>,
              <<"r", "w", "r", "g", "t", "g">>,
              <<"g", "g", "R", "g", "P", "e">>,
              <<"g", "C", "g", "g", "e", "e">>,
              <<"g", "g", "g", "T", "g", "g">>,
              <<"g", "g", "g", "g", "g", "g">>>>

\* the plan with a bridge across the water of its second row, a rail, a road with
\* a rail overlay, a house and a subway under the house
ToolCity ==
  LET size == Len(ToolPlan)
      bridged == BridgePathLoop(TownGrid(ToolPlan), size,
                                <<[x |-> 0, y |-> 1], [x |-> 1, y |-> 1],
                                  [x |-> 2, y |-> 1]>>, "road", 1)
      laid == Laid(bridged, size,
                   << <<3, 0, "rail", "null">>, <<0, 5, "road", "null">>,
                      <<0, 5, "rail", "null">>, <<1, 5, "house_small", "null">> >>, 1)
  IN [laid EXCEPT ![5][1].hasSubway = TRUE]

\* what the player can pick: a building, a zone, or nothing
ToolBuildings == {"road", "rail", "tree", "park", "police_station", "power_plant",
                  "stadium", "marina_docks_small", "pier_large"}
ToolZones == {"none", "residential"}
ToolCoords == -1 .. Len(ToolPlan)

InitTools == InitialGameState(ToolCity, Len(ToolPlan))

NextTools ==
  \E x \in ToolCoords, y \in ToolCoords :
    /\ call.op = "none"
    /\ \/ \E buildingType \in ToolBuildings : placeBuilding(x, y, buildingType, "null")
       \/ \E zone \in ToolZones : placeBuilding(x, y, "null", zone)
       \/ placeBuilding(x, y, "null", "null")
       \/ bulldozeTile(x, y)
       \/ placeSubway(x, y)
       \/ removeSubway(x, y)
       \/ placeWaterTerraform(x, y)
       \/ placeLandTerraform(x, y)

SpecTools == InitTools /\ [][NextTools]_vars

\* the last call was placeBuilding on a tile of the grid
Placing == call.op = "placeBuilding" /\ InGrid(call.x, call.y, gridSize)
PlacingBuilding == Placing /\ call.buildingType # "null" /\ call.zone = "null"

\* the call returned its input state and no tile differs
Rejected == ret = "input" /\ grid = saved.grid

\* the type of the building on tile c before the call
TypeBefore(c) == saved.grid[c[2]][c[1]].building.type

PlacedFootprint ==
  Footprint(call.x, call.y, getBuildingSize(call.buildingType).width,
            getBuildingSize(call.buildingType).height)

TileTools == {"placeBuilding", "bulldozeTile", "placeSubway", "removeSubway",
              "placeWaterTerraform", "placeLandTerraform"}

\* C15: for coordinates outside the grid, placeBuilding, bulldozeTile, placeSubway,
\* removeSubway, placeWaterTerraform and placeLandTerraform each return the input
\* state itself with nothing changed.
C15_OutOfGridIgnored ==
  (call.op \in TileTools /\ ~InGrid(call.x, call.y, gridSize)) =>
    /\ ret = "input"
    /\ Snapshot(grid, budget, stats, notifications, history) = saved
    /\ inputNow = saved

\* land terraforming was asked for beyond the corner of the grid that holds water
C15_Witness ==
  /\ call.op = "placeLandTerraform" /\ call.x = -1 /\ call.y = -1
  /\ saved.grid[0][0].building.type = "water"
  /\ ret = "input" /\ grid = saved.grid

---------------------------------------------------------------------------
(* 16. A city with service buildings in every condition *)

\* a hospital (2 x 2) and a police station in service, a fire station under
\* construction, an abandoned school (2 x 2), a water tower of level 5 and a house
UpgradeCity ==
  LET size == 5
      hospital == applyBuildingFootprint(GrassGrid(size), 0, 0, "hospital", "none", 1,
                                         [none |-> TRUE])
      school == applyBuildingFootprint(hospital, 0, 2, "school", "none", 1,
                                       [none |-> TRUE])
  IN [school EXCEPT
        ![0][0].building.constructionProgress = 10000,
        ![2][0].building.constructionProgress = 10000,
        ![2][0].building.abandoned = TRUE,
        ![0][2] = BuiltTile(@, "police_station", "none"),
        ![0][3].building = createBuilding("fire_station"),
        ![0][4] = [BuiltTile(@, "water_tower", "none") EXCEPT
                     !.building.level = SERVICE_MAX_LEVEL],
        ![4][4] = BuiltTile(@, "house_small", "residential")]

\* the money of the city
Treasuries == {0, 999, 1000, 1999, 2000, 40000}

InitUpgrade ==
  \E money \in Treasuries :
    /\ grid = UpgradeCity
    /\ gridSize = 5
    /\ year = 2024 /\ month = 1 /\ day = 1 /\ hour = 12 /\ tick = 0
    /\ taxRate = 900 /\ effectiveTaxRate = 900
    /\ stats = [createInitialStats EXCEPT !.money = money]
    /\ budget = createInitialBudget
    /\ services = createServiceCoverage(5)
    /\ notifications = <<>> /\ history = <<>> /\ advisorMessages = <<>>
    /\ disastersEnabled = TRUE
    /\ roadAccessVisited = {}
    /\ pc = "idle" /\ pos = 0 /\ newGrid = <<>> /\ modifiedRows = {}
    /\ tickServices = <<>>
    /\ call = [op |-> "none"]
    /\ saved = <<>>
    /\ inputNow = <<>>
    /\ ret = "none"

NextUpgrade ==
  \E x \in -1 .. gridSize, y \in -1 .. gridSize : upgradeServiceBuilding(x, y)

SpecUpgrade == InitUpgrade /\ [][NextUpgrade]_vars

\* the building that the tile of the last call belonged to before the call
UpgradeTarget ==
  LET origin == findBuildingOrigin(saved.grid, call.x, call.y, gridSize)
  IN IF origin.found THEN saved.grid[origin.originY][origin.originX].building
     ELSE saved.grid[call.y][call.x].building

\* the upgrade asked for by the last call could not be applied
UpgradeRefused ==
  /\ call.op = "upgradeServiceBuilding"
  /\ \/ ~InGrid(call.x, call.y, gridSize)
     \/ UpgradeTarget.type \notin SERVICE_BUILDING_TYPES
     \/ UpgradeTarget.constructionProgress < 10000
     \/ UpgradeTarget.abandoned
     \/ UpgradeTarget.level >= 5
     \/ saved.stats.money < ToolCost(UpgradeTarget.type) * Pow2(UpgradeTarget.level)

StateUnchanged ==
  /\ Snapshot(grid, budget, stats, notifications, history) = saved
  /\ inputNow = saved

\* C16 as stated: upgradeServiceBuilding returns the input state unchanged when the
\* coordinates are invalid, the tile is not a service building, the building is
\* under construction or abandoned, its level is already 5, or stats.money is
\* below the upgrade cost.
C16_Original == UpgradeRefused => (ret = "state" /\ StateUnchanged)

\* C16: in these cases upgradeServiceBuilding returns null and leaves the input
\* state unchanged.
C16_UpgradeRefused == UpgradeRefused => (ret = "null" /\ StateUnchanged)

\* the police station had been upgraded once and the money left did not pay for
\* the second upgrade
C16_Witness ==
  /\ UpgradeRefused
  /\ call.x = 2 /\ call.y = 0
  /\ UpgradeTarget.type = "police_station" /\ UpgradeTarget.level = 2
  /\ stats.money < 2000 /\ stats.money >= 0
  /\ ret = "null" /\ grid = saved.grid

---------------------------------------------------------------------------
(* 17. The ledger of a city whose income and expenses do not change *)

LedgerSize == 2
LedgerTicks == 11000

\* grass with two roads and a tree: the only entry of the ledger is the maintenance
\* of the roads, and the scan has a tile to work on
LedgerGrid ==
  [GrassGrid(LedgerSize) EXCEPT ![0][0] = BuiltTile(@, "road", "none"),
                                ![0][1] = BuiltTile(@, "road", "none"),
                                ![1][1].building = createBuilding("tree")]

InitLedger == InitialGameState(LedgerGrid, LedgerSize)

NextLedger ==
  \/ TicksElapsed < LedgerTicks /\ TickBegin
  \/ TickTile
  \/ TickEnd

SpecLedger == InitLedger /\ [][NextLedger]_vars

\* the amount of a credit, and the number of credits since the city was founded
WeeklyNet == FloorDiv(stats.income - stats.expenses, 4)
CreditsSoFar == (stats.money - createInitialStats.money) \div WeeklyNet

\* the call that has just returned changed stats.money
Credited == TickDone /\ stats.money # saved.stats.money

\* C17 as stated: stats.money changes only on a tick at which the day counter rolls
\* over, and any two consecutive credits are exactly 7 simulated days (210 ticks)
\* apart, including across month and year boundaries: the n-th credit comes
\* 210 * (n - 1) ticks after the first, which comes with the roll-over to day 7.
C17_Original ==
  Credited =>
    /\ tick = 0
    /\ TicksElapsed = (7 - 1) * 30 + 210 * (CreditsSoFar - 1)

\* C17: stats.money changes only on a tick at which the day counter rolls over to
\* day 7, 14, 21 or 28 of a month, and on every such tick it grows by
\* floor((income - expenses) / 4); consecutive credits are 7 simulated days (210
\* ticks) apart within a month and 9 days (270 ticks) apart from day 28 to day 7
\* of the next month, also from December to January.
C17_WeeklyCredit ==
  TickDone =>
    /\ stats.money # saved.stats.money => tick = 0 /\ day \in {7, 14, 21, 28}
    /\ (tick = 0 /\ day \in {7, 14, 21, 28})
         => /\ stats.money = saved.stats.money + WeeklyNet
            /\ TicksElapsed = ((CreditsSoFar - 1) \div 4) * 900
                              + (7 * (((CreditsSoFar - 1) % 4) + 1) - 1) * 30

\* the first credit of the second year, 9 days after the last of the first
C17_Witness ==
  /\ Credited
  /\ year = 2025 /\ month = 1 /\ day = 7
  /\ CreditsSoFar = 49
  /\ TicksElapsed = 10800 + 180


---------------------------------------------------------------------------
(* 19. / 20. Fire in a city without utilities *)

\* a one-tile water run between two roads, a house in a residential zone and a
\* fire station in service; no power plant and no water tower
BlazeCity ==
  [GrassGrid(4) EXCEPT ![0][0] = BuiltTile(@, "road", "none"),
                       ![0][1].building = createBuilding("water"),
                       ![0][2] = BuiltTile(@, "road", "none"),
                       ![2][0] = BuiltTile(@, "house_small", "residential"),
                       ![2][2] = BuiltTile(@, "fire_station", "none")]

\* the ticks the city is followed for
BlazeTicks == 5

InitBlaze == InitialGameState(BlazeCity, Cardinality(DOMAIN BlazeCity))

\* the road is dragged over the water, before or between the ticks
NextBlaze ==
  \/ createBridgesOnPath(DragPath(<<0, 0>>, <<2, 0>>), "road")
  \/ TicksElapsed < BlazeTicks /\ TickBegin
  \/ TickTile
  \/ TickEnd

SpecBlaze == InitBlaze /\ [][NextBlaze]_vars

\* the types the specification calls not flammable
NOT_FLAMMABLE == {"grass", "water", "road", "tree", "empty", "bridge", "rail"}

\* tile t was not burning before the call and burns after it
Ignited(t) ==
  /\ ~saved.grid[t[2]][t[1]].building.onFire
  /\ grid[t[2]][t[1]].building.onFire

\* C19: in no tick does a tile whose building type is grass, water, road, tree,
\* empty, bridge or rail (and stays so through the tick) go from not burning to
\* burning.
C19_NoIgnition ==
  TickDone =>
    \A t \in AllTiles :
      (saved.grid[t[2]][t[1]].building.type \in NOT_FLAMMABLE /\ SameBuilding(t))
        => ~Ignited(t)

\* tile t burned when the tick began
Burning(t) == saved.grid[t[2]][t[1]].building.onFire

\* the three ends of a tick for a tile that burned when it began; fireProgress is
\* in thirds
Extinguished(t) ==
  /\ ~grid[t[2]][t[1]].building.onFire
  /\ grid[t[2]][t[1]].building.fireProgress = 0
Destroyed(t) ==
  /\ grid[t[2]][t[1]].building.type = "grass"
  /\ grid[t[2]][t[1]].zone = "none"
BurnedOn(t) ==
  /\ grid[t[2]][t[1]].building.onFire
  /\ grid[t[2]][t[1]].building.fireProgress
       = saved.grid[t[2]][t[1]].building.fireProgress + 2

\* C20: while disasters are enabled, every tile that burns at the start of a tick
\* ends it extinguished, destroyed, or still burning with fireProgress increased
\* by 2/3, and it is destroyed only when fireProgress has reached 100; so no tile
\* burns on without progress.
C20_FireProgress ==
  (TickDone /\ disastersEnabled) =>
    \A t \in AllTiles :
      Burning(t) =>
        /\ Extinguished(t) \/ Destroyed(t) \/ BurnedOn(t)
        /\ Destroyed(t) => saved.grid[t[2]][t[1]].building.fireProgress + 2 >= 300
        /\ BurnedOn(t) => grid[t[2]][t[1]].building.fireProgress < 300


---------------------------------------------------------------------------
(* 18. Cities with multi-tile buildings, edited and left to the simulation *)

\* a 4 x 4 city without utilities: a hospital (2 x 2, placed and never built for
\* want of power and water) that has burned for 149 ticks, a tree, and a
\* one-tile water run between two roads
FireEstate ==
  LET laid == applyBuildingFootprint(GrassGrid(4), 0, 0, "hospital", "none", 1,
                                     [none |-> TRUE])
  IN [laid EXCEPT ![0][0].building.onFire = TRUE,
                  ![0][0].building.fireProgress = 298,
                  ![1][3].building = createBuilding("tree"),
                  ![3][0] = BuiltTile(@, "road", "none"),
                  ![3][1].building = createBuilding("water"),
                  ![3][2] = BuiltTile(@, "road", "none")]

\* a 5 x 5 city with a power plant and a water tower in service, and a low
\* apartment block (2 x 2) of a residential zone with three more zoned tiles up
\* and left of it: abandoned, old enough to grow into a high block, or young
\* enough to shrink into a house
GrowthEstate(kind) ==
  LET plant == WithServiceBuilding(GrassGrid(5), <<3, 3>>, "power_plant", "service", 1)
      tower == WithServiceBuilding(plant, <<4, 0>>, "water_tower", "service", 1)
      zoned == [tower EXCEPT ![0][0].zone = "residential",
                             ![0][1].zone = "residential",
                             ![1][0].zone = "residential"]
      block == applyBuildingFootprint(zoned, 1, 1, "apartment_low", "residential", 4,
                                      [none |-> TRUE])
      supplied == [y \in DOMAIN block |-> [x \in DOMAIN block[y] |->
                     [block[y][x] EXCEPT !.building.powered = TRUE,
                                         !.building.watered = TRUE]]]
  IN [supplied EXCEPT ![1][1].building =
        [@ EXCEPT !.constructionProgress = 10000,
                  !.abandoned = (kind = "abandoned"),
                  !.age = IF kind = "old" THEN 1750 ELSE 130]]

EstateKinds == {"abandoned", "old", "young"}

\* the ticks between the two edits
EstateTicks == 1

\* the tiles the tools are used on: in the first city the anchor and a filler of
\* the hospital, grass and water; in the others zoned grass, the anchor and two
\* fillers of the block, grass, and the anchor of the power plant
EstateSpots == {<<0, 0>>, <<1, 1>>, <<2, 1>>, <<1, 3>>, <<3, 3>>, <<2, 2>>}

InitEstate ==
  \/ StateWith(FireEstate, 4, TRUE, 900, 900, createInitialStats.demand)
  \/ \E kind \in EstateKinds :
       StateWith(GrowthEstate(kind), 5, FALSE, 900, 900, createInitialStats.demand)

\* one use of a tool, the ticks, and one more use of a tool
NextEstate ==
  \/ /\ call.op = "none" \/ (call.op = "simulateTick" /\ TicksElapsed = EstateTicks)
     /\ \E spot \in EstateSpots :
          \/ \E buildingType \in {"road", "hospital"} :
               placeBuilding(spot[1], spot[2], buildingType, "null")
          \/ \E zone \in {"none", "residential"} :
               placeBuilding(spot[1], spot[2], "null", zone)
          \/ bulldozeTile(spot[1], spot[2])
          \/ placeWaterTerraform(spot[1], spot[2])
          \/ placeLandTerraform(spot[1], spot[2])
          \/ createBridgesOnPath(DragPath(<<0, spot[2]>>, <<2, spot[2]>>), "road")
  \/ TicksElapsed < EstateTicks /\ TickBegin
  \/ TickTile
  \/ TickEnd

SpecEstate == InitEstate /\ [][NextEstate]_vars

\* the anchors of the multi-tile buildings of the city
Anchors ==
  {a \in AllTiles :
     /\ grid[a[2]][a[1]].building.type \notin NotStructure
     /\ getBuildingSize(grid[a[2]][a[1]].building.type).width > 1}

\* the tiles of the footprint of the building anchored at a
FootprintOf(a) ==
  Footprint(a[1], a[2], getBuildingSize(grid[a[2]][a[1]].building.type).width,
            getBuildingSize(grid[a[2]][a[1]].building.type).height)

OriginBefore(t) == findBuildingOrigin(saved.grid, t[1], t[2], gridSize)

---------------------------------------------------------------------------
(* 21. / 22. A fire beside a water tower, with disasters enabled and disabled *)

\* houses of a residential zone, one of them burning, a water tower in service
\* beside the burning house, and an abandoned house that burns; no fire station.
\* Every tile carries the watered flag that the tower's coverage has given it.
SpreadCity ==
  LET laid ==
        [GrassGrid(3) EXCEPT
           ![0][0] = [BuiltTile(@, "house_small", "residential") EXCEPT
                        !.building.onFire = TRUE, !.building.fireProgress = 290],
           ![0][1] = BuiltTile(@, "water_tower", "none"),
           ![1][0] = BuiltTile(@, "house_small", "residential"),
           ![2][2] = [BuiltTile(@, "house_small", "residential") EXCEPT
                        !.building.abandoned = TRUE, !.building.onFire = TRUE,
                        !.building.fireProgress = 40]]
  IN [y \in DOMAIN laid |-> [x \in DOMAIN laid[y] |->
        [laid[y][x] EXCEPT !.building.watered = TRUE]]]

\* the ticks the city is followed for
SpreadTicks == 4

InitSpread ==
  \E disasters \in BOOLEAN :
    StateWith(SpreadCity, 3, disasters, 900, 900, createInitialStats.demand)

NextSpread ==
  \/ TicksElapsed < SpreadTicks /\ TickBegin
  \/ TickTile
  \/ TickEnd

SpecSpread == InitSpread /\ [][NextSpread]_vars

\* the 4-neighbours of tile t inside the grid
Neighbours4(t) ==
  {n \in AllTiles : Abs(n[1] - t[1]) + Abs(n[2] - t[2]) = 1}

\* when the scan of a tick begins, tile t is flammable and not burning, has a
\* burning 4-neighbour and fire coverage below 100
FireCanReach(t) ==
  /\ grid[t[2]][t[1]].building.type \notin NOT_FLAMMABLE
  /\ ~grid[t[2]][t[1]].building.onFire
  /\ \E n \in Neighbours4(t) : grid[n[2]][n[1]].building.onFire
  /\ tickServices.fire[t[2]][t[1]] < 10000

\* C21: when disasters are enabled, every non-burning flammable tile with a burning
\* 4-neighbour and fire coverage below 100 can catch fire in the next tick: the
\* loop body with the draws of lines 874-895 is run for it, also when it is a
\* completed unzoned service building without pollution and without a pending
\* power or water change.
C21_CanCatchFire ==
  (pc = "scan" /\ pos = 0 /\ disastersEnabled) =>
    \A t \in AllTiles :
      FireCanReach(t) => ~Skipped(grid, tickServices, t[1], t[2])

---------------------------------------------------------------------------
(* 23. - 29. A residential quarter, with and without utilities, in a slump  *)
(* and in a boom                                                           *)

\* a 5 x 5 city: a road at (0,0) with zoned grass beside it at (1,0), zoned grass
\* without a road at (4,2), an abandoned low apartment block (2 x 2) at (1,1), an
\* occupied medium house of level 2 at (3,2), a police and a fire station that
\* have just been completed, and every tile flagged powered and watered.  With
\* utilities a power plant and a water tower are in service; without, the two
\* have just been bulldozed.
QuarterCity(utilities) ==
  LET zoned == [GrassGrid(5) EXCEPT ![0][0] = BuiltTile(@, "road", "none"),
                                    ![0][1].zone = "residential",
                                    ![2][4].zone = "residential"]
      police == WithServiceBuilding(zoned, <<0, 3>>, "police_station", "service", 1)
      fire == WithServiceBuilding(police, <<0, 4>>, "fire_station", "service", 1)
      block == applyBuildingFootprint(fire, 1, 1, "apartment_low", "residential", 4,
                                      [none |-> TRUE])
      housed == [block EXCEPT
                   ![1][1].building = [@ EXCEPT !.constructionProgress = 10000,
                                                !.abandoned = TRUE, !.age = 400],
                   ![2][3] = [BuiltTile(@, "house_medium", "residential") EXCEPT
                                !.building.level = 2, !.building.age = 400,
                                !.building.population = 22]]
      plant == WithServiceBuilding(housed, <<3, 3>>, "power_plant", "service", 1)
      tower == WithServiceBuilding(plant, <<4, 0>>, "water_tower", "service", 1)
      Fresh(x, y) == ~utilities /\ (<<x, y>> = <<4, 0>> \/ (x >= 3 /\ y >= 3))
  IN [y \in Coords(5) |-> [x \in Coords(5) |->
        IF Fresh(x, y) THEN housed[y][x]
        ELSE [(IF utilities THEN tower ELSE housed)[y][x] EXCEPT
                !.building.powered = TRUE, !.building.watered = TRUE]]]

\* the residential demand of the state, in hundredths: a slump, a lull and a boom
QuarterDemands == {-5000, 500, 5000}

\* the ticks the quarter is followed for
QuarterTicks == 2

InitQuarter ==
  \E utilities \in BOOLEAN, residential \in QuarterDemands :
    StateWith(QuarterCity(utilities), 5, FALSE, 900, 900,
              [createInitialStats.demand EXCEPT !.residential = residential])

NextQuarter ==
  \/ TicksElapsed < QuarterTicks /\ TickBegin
  \/ TickTile
  \/ TickEnd

SpecQuarter == InitQuarter /\ [][NextQuarter]_vars


\* C23: in every state returned by simulateTick, every building with
\* constructionProgress < 100 has population 0 and jobs 0, also one created in
\* that tick by spawn or by consolidation.
C23_NoOccupancyWhileConstructing ==
  TickDone =>
    \A t \in AllTiles :
      grid[t[2]][t[1]].building.constructionProgress < 10000
        => /\ grid[t[2]][t[1]].building.population = 0
           /\ grid[t[2]][t[1]].building.jobs = 0


\* the zoned buildings: what stands on a zoned tile that is neither vacant nor a
\* filler tile
ZonedBuilding(tile) ==
  tile.zone # "none" /\ tile.building.type \notin NotStructure

\* C24: a zoned building that keeps its type and anchor tile across a tick has
\* after the tick its level of before or that level plus 1, and a level within
\* 1..5, also when a consolidation attempt finds no valid footprint.
C24_LevelStep ==
  TickDone =>
    \A t \in AllTiles :
      LET before == saved.grid[t[2]][t[1]]
          after  == grid[t[2]][t[1]]
      IN (ZonedBuilding(before) /\ ZonedBuilding(after) /\ SameBuilding(t))
           => /\ after.building.level \in {before.building.level,
                                           before.building.level + 1}
              /\ after.building.level \in 1 .. 5


\* C25: after every tick, every completed, non-abandoned zoned building has
\* population floor(maxPop * level * efficiency * 0.8) and jobs
\* floor(maxJobs * level * efficiency * 0.8), the efficiency being half a point
\* for each of its powered and watered flags in the returned state; a building
\* with neither power nor water has population 0 and jobs 0.
C25_OccupancyFormula ==
  TickDone =>
    \A t \in AllTiles :
      LET tile == grid[t[2]][t[1]]
          b == tile.building
      IN (ZonedBuilding(tile) /\ b.constructionProgress >= 10000 /\ ~b.abandoned)
           => /\ b.population = Occupancy(BUILDING_STATS(b.type).maxPop, b)
              /\ b.jobs = Occupancy(BUILDING_STATS(b.type).maxJobs, b)


\* the demand of the tick for the zone of a tile: the demand of the input state
DemandOfTick(tile) == ZoneDemand(saved.stats.demand, tile.zone)

\* the zoned building on tile t was occupied before the tick and is abandoned,
\* on the same tile and with the same type, after it
BecameAbandoned(t) ==
  /\ ZonedBuilding(saved.grid[t[2]][t[1]])
  /\ ~saved.grid[t[2]][t[1]].building.abandoned
  /\ SameBuilding(t)
  /\ grid[t[2]][t[1]].building.abandoned

\* C26: an occupied building becomes abandoned in a tick only if, in that tick,
\* it lacks power or water, the demand for its zone is below -20 and its age is
\* above 30; a building that is both powered and watered is never abandoned.
C26_AbandonmentNeedsOutage ==
  TickDone =>
    \A t \in AllTiles :
      BecameAbandoned(t)
        => /\ ~(grid[t[2]][t[1]].building.powered /\ grid[t[2]][t[1]].building.watered)
           /\ DemandOfTick(saved.grid[t[2]][t[1]]) < -2000
           /\ saved.grid[t[2]][t[1]].building.age > 300


\* C27: in every state returned by simulateTick, every building with abandoned =
\* true has population 0 and jobs 0, and every tile of type 'empty' has
\* population 0 and jobs 0.
C27_NoTenantsInAbandoned ==
  TickDone =>
    \A t \in AllTiles :
      LET b == grid[t[2]][t[1]].building
      IN (b.abandoned \/ b.type = "empty") => (b.population = 0 /\ b.jobs = 0)

\* a tick has abandoned the occupied house of 22 people at (3,2), and the
\* abandoned block beside it still stands with its filler tiles
C27_Witness ==
  /\ TickDone
  /\ BecameAbandoned(<<3, 2>>)
  /\ saved.grid[2][3].building.population = 22
  /\ grid[1][1].building.abandoned
  /\ grid[1][2].building.type = "empty"


\* an abandoned building stands on the zoned tile t before the tick
AbandonedBefore(t) ==
  /\ ZonedBuilding(saved.grid[t[2]][t[1]])
  /\ saved.grid[t[2]][t[1]].building.abandoned

\* the tick has cleared the abandoned building that stood on tile t
Cleared(t) == AbandonedBefore(t) /\ grid[t[2]][t[1]].building.type = "grass"

\* the footprint that the building on tile t had before the tick, inside the grid
FootprintBefore(t) ==
  Footprint(t[1], t[2], getBuildingSize(saved.grid[t[2]][t[1]].building.type).width,
            getBuildingSize(saved.grid[t[2]][t[1]].building.type).height)
    \cap AllTiles

\* tile c is grass after the tick, with the power and water flags of the tick's
\* service coverage
GrassWithCurrentFlags(c) ==
  \E svc \in {calculateServiceCoverage(saved.grid, gridSize)} :
    /\ grid[c[2]][c[1]].building.type = "grass"
    /\ grid[c[2]][c[1]].building.powered = svc.power[c[2]][c[1]]
    /\ grid[c[2]][c[1]].building.watered = svc.water[c[2]][c[1]]

\* tile c holds after the tick a building that the tick has spawned on it: the
\* first building of its zone's list, at level 1 and not yet under construction
SpawnedOn(c) ==
  /\ grid[c[2]][c[1]].zone # "none"
  /\ grid[c[2]][c[1]].building.type = BuildingList(grid[c[2]][c[1]].zone)[1]
  /\ grid[c[2]][c[1]].building.constructionProgress = 0
  /\ grid[c[2]][c[1]].building.level = 1
  /\ grid[c[2]][c[1]].building.population = 0

\* an abandoned building under a zone demand of at most 10 stays on its tile,
\* with its type and abandoned = true (no tile burns in these cities)
AbandonedStays ==
  \A t \in AllTiles :
    (AbandonedBefore(t) /\ DemandOfTick(saved.grid[t[2]][t[1]]) <= 1000)
      => (SameBuilding(t) /\ grid[t[2]][t[1]].building.abandoned)

---------------------------------------------------------------------------
(* 29. A residential block growing over vacant zoned grass *)

\* the city of the old low apartment block, with a road just laid at (2,0)
\* beside its three vacant zoned tiles, and one more residential grass tile at
\* (0,4) that no road reaches
SprawlCity ==
  [GrowthEstate("old") EXCEPT ![0][2] = BuiltTile(@, "road", "none"),
                              ![4][0].zone = "residential",
                              ![1][1].building.age = 1800]

\* the residential demand of the input state: -50 and 5
SprawlDemands == {-5000, 500}

SprawlTicks == 2

InitSprawl ==
  \E residential \in SprawlDemands :
    StateWith(SprawlCity, 5, FALSE, 900, 900,
              [createInitialStats.demand EXCEPT !.residential = residential])

NextSprawl ==
  \/ TicksElapsed < SprawlTicks /\ TickBegin
  \/ TickTile
  \/ TickEnd

SpecSprawl == InitSprawl /\ [][NextSprawl]_vars

\* tile t is vacant zoned grass before the tick
VacantZonedGrass(t) ==
  /\ saved.grid[t[2]][t[1]].zone # "none"
  /\ saved.grid[t[2]][t[1]].building.type = "grass"

\* the conditions of lines 790-807 for a spawn on tile t, on the input of the tick
SpawnConditions(t) ==
  \E svc \in {calculateServiceCoverage(saved.grid, gridSize)} :
    LET zone == saved.grid[t[2]][t[1]].zone
        candidate == BuildingList(IF zone \in {"residential", "commercial"}
                                    THEN zone ELSE "industrial")[1]
        candidateSize == getBuildingSize(candidate)
    IN /\ hasRoadAccess(saved.grid, t[1], t[2], gridSize, 8, {}).found
       /\ DemandOfTick(saved.grid[t[2]][t[1]]) > -3000
       /\ canPlaceMultiTileBuilding(saved.grid, t[1], t[2], candidateSize.width,
                                    candidateSize.height, gridSize)
       /\ \/ svc.power[t[2]][t[1]] /\ svc.water[t[2]][t[1]]
          \/ isStarterBuilding(t[1], t[2], candidate)

\* C29 as stated: a new building appears on a vacant zoned grass tile during a
\* tick only if hasRoadAccess holds for the tile, the demand of the previous tick
\* for its zone is above -30, the candidate footprint is grass or tree inside
\* the grid, and the tile is powered and watered or the candidate is a starter
\* type; a tile with zone 'none' never spawns a building.
C29_Original ==
  TickDone =>
    \A t \in AllTiles :
      /\ (VacantZonedGrass(t) /\ grid[t[2]][t[1]].building.type \notin {"grass", "tree"})
           => SpawnConditions(t)
      /\ (saved.grid[t[2]][t[1]].zone = "none"
          /\ saved.grid[t[2]][t[1]].building.type = "grass")
           => grid[t[2]][t[1]].building.type = "grass"

\* C29, amended: the tick spawns a building (the first of the zone's list, at
\* level 1) on a vacant zoned grass tile only under these conditions, and a
\* grass tile with zone 'none' stays grass; any other building that appears on
\* vacant zoned grass is the anchor or a filler tile of a neighbour's
\* consolidation.
C29_SpawnConditions ==
  TickDone =>
    \A t \in AllTiles :
      /\ (VacantZonedGrass(t) /\ SpawnedOn(t)) => SpawnConditions(t)
      /\ (VacantZonedGrass(t) /\ ~SpawnedOn(t)
          /\ grid[t[2]][t[1]].building.type \notin {"grass", "tree"})
           => \E a \in AllTiles :
                /\ grid[a[2]][a[1]].building.type \notin NotStructure
                /\ Cardinality(FootprintOf(a)) > 1
                /\ t \in FootprintOf(a)
                /\ \E c \in FootprintOf(a) \cap AllTiles :
                     ZonedBuilding(saved.grid[c[2]][c[1]])
      /\ (saved.grid[t[2]][t[1]].zone = "none"
          /\ saved.grid[t[2]][t[1]].building.type = "grass")
           => grid[t[2]][t[1]].building.type = "grass"


\* a tick under demand 5 has spawned a house on the vacant zoned tile (1,0)
\* beside the road
C29_Witness ==
  /\ TickDone
  /\ VacantZonedGrass(<<1, 0>>)
  /\ SpawnedOn(<<1, 0>>)
  /\ SpawnConditions(<<1, 0>>)
  /\ DemandOfTick(saved.grid[0][1]) = 500


---------------------------------------------------------------------------
(* 30. Road access after calls on other grids *)

\* a call of hasRoadAccess(g, x, y, size, maxDistance) on a grid that is not the
\* one of the state: it leaves its marks in the module's buffers
CallHasRoadAccessOn(g, size, x, y, maxDistance) ==
  LET r == hasRoadAccess(g, x, y, size, maxDistance, roadAccessVisited)
  IN /\ pc = "idle"
     /\ call' = [op |-> "hasRoadAccess on another grid"]
     /\ ret' = r.found
     /\ roadAccessVisited' = r.visited
     /\ UNCHANGED <<grid, gridSize, clockVars, econVars, services, logVars,
                    disastersEnabled, scanVars, saved, inputNow>>

\* the districts of the state: open, walled off from the road, or with two wall
\* tiles, the walls unzoned or water, and a road at (3,3) or none
HistoryGrids ==
  {RoadGrid(walls, wk, <<3, 3>>, rk) :
     walls \in {{}, {<<1, 0>>, <<1, 1>>, <<1, 2>>, <<1, 3>>}, {<<2, 3>>, <<3, 2>>}},
     wk \in {"unzoned", "water"}, rk \in {"road", "none"}}

\* another city, larger than the one of the state: residential throughout, with
\* a road in its far corner
OtherSize == 6
OtherCity ==
  [y \in Coords(OtherSize) |-> [x \in Coords(OtherSize) |->
     IF x = OtherSize - 1 /\ y = OtherSize - 1
       THEN BuiltTile(createTile(x, y, "grass"), "road", "none")
       ELSE ZonedTile(createTile(x, y, "grass"), "residential")]]
OtherProbes == {<<0, 0>>, <<4, 5>>}

\* the tiles of the state's grid that are asked about
HistoryProbes == {<<0, 0>>, <<2, 3>>, <<0, 3>>, <<3, 0>>}
HistoryDistances == {1, 8}

InitHistory == \E g \in HistoryGrids : InitialGameState(g, RoadSize)

NextHistory ==
  \/ \E p \in HistoryProbes, d \in HistoryDistances :
       CallHasRoadAccess(p[1], p[2], d)
  \/ \E p \in OtherProbes, d \in HistoryDistances :
       CallHasRoadAccessOn(OtherCity, OtherSize, p[1], p[2], d)

SpecHistory == InitHistory /\ [][NextHistory]_vars

\* C30: hasRoadAccess is independent of the call history: whatever calls came
\* before, on this grid or another, a call returns what it returns on buffers
\* without any mark.
C30_HistoryIndependent ==
  call.op = "hasRoadAccess" =>
    ret = hasRoadAccess(grid, call.x, call.y, gridSize, call.maxDistance, {}).found

\* a call with maxDistance 1 has found the road while the buffer still holds
\* marks of earlier calls: one of a call on the larger city, beyond the tiles of
\* this grid, and one on this grid outside the cleared window
C30_Witness ==
  /\ call.op = "hasRoadAccess"
  /\ call.maxDistance = 1
  /\ ret = TRUE
  /\ \E idx \in roadAccessVisited : idx >= gridSize * gridSize
  /\ \E t \in AllTiles :
       /\ t[2] * gridSize + t[1] \in roadAccessVisited
       /\ (t[1] < call.x - 1 \/ t[2] < call.y - 1)


---------------------------------------------------------------------------
(* 31. The four quality services as capped sums *)

QualityServices == {"police", "fire", "health", "education"}

\* the completed, non-abandoned buildings of a service on the grid, as anchors
ServiceAnchors(service) ==
  {a \in AllTiles :
     LET b == grid[a[2]][a[1]].building
     IN /\ b.type \in SERVICE_BUILDING_TYPES
        /\ ServiceKind(b.type) = service
        /\ b.constructionProgress >= 10000
        /\ ~b.abandoned}

\* max(0, (1 - distance / range) * 100) for the building at a and the tile t when
\* t lies within the floored range of the building, else 0; in hundredths
Contribution(a, t) ==
  LET b == grid[a[2]][a[1]].building
      range == EffectiveRange(b.type, b.level)
      distSquared == (t[1] - a[1]) * (t[1] - a[1]) + (t[2] - a[2]) * (t[2] - a[2])
  IN IF distSquared <= range * range
       THEN Max(0, FloorDiv((range * 100 - ISqrt(distSquared * 10000)) * 100, range))
       ELSE 0

\* the sum of the contributions of the buildings in S to tile t
RECURSIVE SumOfContributions(_, _)
SumOfContributions(S, t) ==
  IF S = {} THEN 0
  ELSE LET a == CHOOSE a \in S : TRUE
       IN Contribution(a, t) + SumOfContributions(S \ {a}, t)

\* C31: for each of police, fire, health and education the value that
\* calculateServiceCoverage gives a tile is min(100, the sum over the completed,
\* non-abandoned buildings of that service within their floored range of
\* max(0, (1 - distance / range) * 100)); it lies in [0, 100].
C31_CappedSum ==
  call.op = "calculateServiceCoverage" =>
    \A service \in QualityServices, t \in AllTiles :
      /\ ret[service][t[2]][t[1]] =
           Min(10000, SumOfContributions(ServiceAnchors(service), t))
      /\ ret[service][t[2]][t[1]] \in 0 .. 10000

\* a result for a city with two police stations in service, with a tile where
\* the two contributions, each below 100, add up to more than 100, and a tile
\* that both stations reach and that stays below 100
C31_Witness ==
  /\ call.op = "calculateServiceCoverage"
  /\ Cardinality(ServiceAnchors("police")) = 2
  /\ \E t \in AllTiles :
       /\ ret.police[t[2]][t[1]] = 10000
       /\ \A a \in ServiceAnchors("police") :
            Contribution(a, t) > 0 /\ Contribution(a, t) < 10000
  /\ \E t \in AllTiles :
       /\ ret.police[t[2]][t[1]] < 10000
       /\ \A a \in ServiceAnchors("police") : Contribution(a, t) > 0


---------------------------------------------------------------------------
(* 32. The credit of day 7, in a city with tax income and expenses *)

\* the residential quarter with its utilities in service, on the last tick of
\* day 6 or of day 7 of the first month
PaydayDays == {6, 7}
PaydayDemands == {500, 5000}

InitPayday ==
  \E d \in PaydayDays, residential \in PaydayDemands :
    \E g \in {QuarterCity(TRUE)} :
    \E svc \in {calculateServiceCoverage(g, 5)} :
    \E bud \in {updateBudgetCosts(g, createInitialBudget)} :
      /\ grid = g
      /\ gridSize = 5
      /\ year = 2024 /\ month = 1 /\ day = d /\ tick = 29
      /\ hour = FloorDiv((((d - 1) * 30 + 29) % 450) * 24, 450)
      /\ taxRate = 900 /\ effectiveTaxRate = 900
      /\ stats = [calculateStats(g, 5, bud, 900, 900, svc) EXCEPT
                    !.money = createInitialStats.money,
                    !.demand.residential = residential]
      /\ budget = bud
      /\ services = svc
      /\ notifications = <<>> /\ history = <<>> /\ advisorMessages = <<>>
      /\ disastersEnabled = FALSE
      /\ roadAccessVisited = {}
      /\ pc = "idle" /\ pos = 0 /\ newGrid = <<>> /\ modifiedRows = {}
      /\ tickServices = <<>>
      /\ call = [op |-> "none"]
      /\ saved = <<>>
      /\ inputNow = <<>>
      /\ ret = "none"

NextPayday ==
  \/ tick \in {29, 0} /\ TickBegin
  \/ TickTile
  \/ TickEnd

SpecPayday == InitPayday /\ [][NextPayday]_vars

\* the tick that has returned made the day roll over into day 7, 14, 21 or 28
CreditTick == TickDone /\ tick = 0 /\ day % 7 = 0

\* income and expenses as the claim gives them, from the returned state
IncomeOfTick ==
  FloorDiv(2 * stats.population * taxRate + stats.jobs * taxRate, 2000)
ExpensesOfTick ==
  LET Expense(c) == FloorDiv(c.cost * c.funding, 100)
  IN Expense(budget.police) + Expense(budget.fire) + Expense(budget.health)
     + Expense(budget.education) + Expense(budget.transportation)
     + Expense(budget.parks) + Expense(budget.power) + Expense(budget.water)

\* C32 as stated: on a tick that credits money, stats.money increases by exactly
\* income - expenses of that tick, with income = floor(population * taxRate * 0.1
\* + jobs * taxRate * 0.05) and expenses the sum over the eight budget
\* categories of floor(cost * funding / 100); on every other tick stats.money
\* of the returned state equals that of the input state.
C32_Original ==
  TickDone =>
    stats.money = saved.stats.money
                  + (IF CreditTick THEN IncomeOfTick - ExpensesOfTick ELSE 0)

\* C32, amended: the credit is floor((income - expenses) / 4).
C32_QuarterOfNet ==
  TickDone =>
    stats.money = saved.stats.money
                  + (IF CreditTick THEN FloorDiv(IncomeOfTick - ExpensesOfTick, 4)
                     ELSE 0)

\* the credit of day 7 for the quarter whose house has grown to level 3 in the
\* same tick: income 29, expenses 327, and floor(-298 / 4) = -75
C32_Witness ==
  /\ CreditTick /\ day = 7
  /\ IncomeOfTick = 29 /\ ExpensesOfTick = 327
  /\ stats.income = 29 /\ stats.expenses = 327
  /\ stats.money = saved.stats.money - 75


---------------------------------------------------------------------------
(* 33. The history of a new game and of a game in its 25th year *)

\* the samples that the clock city has taken up to its n-th: one every third
\* month from March 2024 on
ClockSample(k) ==
  [year |-> 2024 + (k - 1) \div 4, month |-> 3 * (((k - 1) % 4) + 1),
   population |-> 0, money |-> createInitialStats.money,
   happiness |-> calculateStats(ClockGrid, ClockSize, createInitialBudget, 900, 900,
                                createServiceCoverage(ClockSize)).happiness]

\* the length the history is cut to at line 932
HISTORY_LIMIT == 100

\* the older game starts with a full history; the months each game is followed for
ArchiveSamples == HISTORY_LIMIT
ArchiveMonths == 4
FreshMonths == 6

\* the clock city as the ticks have left it on the first tick of the month of its
\* latest sample: the demand has settled at 0 and the money has not moved
ArchiveState(samples) ==
  /\ grid = ClockGrid
  /\ gridSize = ClockSize
  /\ year = ClockSample(samples).year /\ month = ClockSample(samples).month
  /\ day = 1 /\ hour = 0 /\ tick = 0
  /\ taxRate = 900 /\ effectiveTaxRate = 900
  /\ stats = [calculateStats(ClockGrid, ClockSize, createInitialBudget, 900, 900,
                             createServiceCoverage(ClockSize)) EXCEPT
                !.money = createInitialStats.money,
                !.demand = [residential |-> 0, commercial |-> 0, industrial |-> 0]]
  /\ budget = createInitialBudget
  /\ services = createServiceCoverage(ClockSize)
  /\ notifications = <<>> /\ advisorMessages = <<>>
  /\ history = [k \in 1 .. samples |-> ClockSample(k)]
  /\ disastersEnabled = TRUE
  /\ roadAccessVisited = {}
  /\ pc = "idle" /\ pos = 0 /\ newGrid = <<>> /\ modifiedRows = {}
  /\ tickServices = <<>>
  /\ call = [op |-> "none"]
  /\ saved = <<>>
  /\ inputNow = <<>>
  /\ ret = "none"

InitArchive ==
  \/ InitialGameState(ClockGrid, ClockSize)
  \/ ArchiveState(ArchiveSamples)

\* the months since January 2024
MonthsElapsed == (year - 2024) * 12 + (month - 1)

NextArchive ==
  \/ /\ \/ MonthsElapsed < FreshMonths
        \/ /\ year >= ClockSample(ArchiveSamples).year
           /\ MonthsElapsed < 3 * ArchiveSamples - 1 + ArchiveMonths
     /\ TickBegin
  \/ TickTile
  \/ TickEnd

SpecArchive == InitArchive /\ [][NextArchive]_vars

\* the tick that has returned began a month divisible by 3
SampleTick == TickDone /\ month % 3 = 0 /\ day = 1 /\ tick = 0

\* the last n entries of a list
LastEntries(h, n) == IF Len(h) > n THEN SubSeq(h, Len(h) - n + 1, Len(h)) ELSE h

\* C33: the history grows by one entry on each tick that begins a month divisible
\* by 3 (month 3, 6, 9 or 12, day 1, tick 0) and is unchanged on every other
\* tick; consecutive samples are 3 simulated months apart; the list never holds
\* more than 100 entries, the oldest being dropped first.
C33_HistorySampling ==
  /\ TickDone =>
       IF SampleTick
         THEN /\ Len(history) >= 1
              /\ history[Len(history)].year = year
              /\ history[Len(history)].month = month
              /\ history[Len(history)].population = stats.population
              /\ history[Len(history)].money = stats.money
              /\ history = LastEntries(Append(saved.history, history[Len(history)]),
                                     HISTORY_LIMIT)
         ELSE history = saved.history
  /\ Len(history) <= HISTORY_LIMIT
  /\ \A i \in 1 .. (Len(history) - 1) :
       (history[i + 1].year * 12 + history[i + 1].month)
         - (history[i].year * 12 + history[i].month) = 3

\* the sample of March 2049 has pushed the sample of March 2024 out of a full
\* list
C33_Witness ==
  /\ SampleTick
  /\ year = 2049 /\ month = 3
  /\ Len(saved.history) = HISTORY_LIMIT /\ Len(history) = HISTORY_LIMIT
  /\ saved.history[1].year = 2024 /\ saved.history[1].month = 3
  /\ history[1] = saved.history[2]
  /\ history[HISTORY_LIMIT].year = 2049 /\ history[HISTORY_LIMIT].month = 3


---------------------------------------------------------------------------
(* 34. What a tick leaves alone *)

\* a city whose tiles carry land values, crime, traffic, subway and rail overlays
\* of their own
Surveyed(g) ==
  [y \in DOMAIN g |-> [x \in DOMAIN g[y] |->
     [g[y][x] EXCEPT !.landValue = 50 + 3 * x + y,
                     !.crime = 500 + x,
                     !.traffic = 100 * y + 1,
                     !.hasSubway = ((x + y) % 2 = 0),
                     !.hasRailOverlay = (x = 1)]]]

FrameTicks == 4

\* the burning hospital by the river, the old block about to grow, and the fire
\* beside the water tower
InitFrame ==
  \/ StateWith(Surveyed(FireEstate), 4, TRUE, 900, 900, createInitialStats.demand)
  \/ StateWith(Surveyed(GrowthEstate("old")), 5, FALSE, 700, 900,
               createInitialStats.demand)
  \/ StateWith(Surveyed(SpreadCity), 3, TRUE, 900, 900, createInitialStats.demand)

NextFrame ==
  \/ TicksElapsed < FrameTicks /\ TickBegin
  \/ TickTile
  \/ TickEnd

SpecFrame == InitFrame /\ [][NextFrame]_vars

\* the fields of a tile that simulateTick does not write
FrameOf(tile) ==
  <<tile.x, tile.y, tile.landValue, tile.crime, tile.traffic, tile.hasSubway,
    tile.hasRailOverlay>>

\* C34: simulateTick leaves unchanged, for every tile, its x, y, landValue, crime,
\* traffic, hasSubway and hasRailOverlay, and for the state its gridSize, taxRate
\* and disastersEnabled; it never turns a water tile into another type nor
\* another tile into water.
C34_Frame ==
  /\ [](TickDone =>
         \A t \in AllTiles :
           /\ FrameOf(grid[t[2]][t[1]]) = FrameOf(saved.grid[t[2]][t[1]])
           /\ grid[t[2]][t[1]].x = t[1] /\ grid[t[2]][t[1]].y = t[2]
           /\ (grid[t[2]][t[1]].building.type = "water")
                <=> (saved.grid[t[2]][t[1]].building.type = "water"))
  /\ [][/\ gridSize' = gridSize
        /\ taxRate' = taxRate
        /\ disastersEnabled' = disastersEnabled]_vars

\* a tick in which the hospital burnt down, on tiles with a subway and a rail
\* overlay, beside the river
C34_Witness ==
  /\ TickDone
  /\ saved.grid[0][0].building.type = "hospital"
  /\ grid[0][0].building.type = "grass"
  /\ grid[0][0].hasSubway /\ grid[0][1].hasRailOverlay
  /\ grid[0][0].landValue = 50 /\ grid[0][0].crime = 500
  /\ \E t \in AllTiles : grid[t[2]][t[1]].building.type = "water"


---------------------------------------------------------------------------
(* 35. Pollution under the tools and the ticks *)

\* a generated world of grass; nothing is polluted yet
SmogSize == 4
SmogCity == GrassGrid(SmogSize)

\* where the player builds, clears and floods, what is built there, and the tiles
\* of the road dragged through that place
SmogSpot == <<1, 1>>
SmogBuildings == {"power_plant", "park_large"}
SmogRoad == DragPath(<<1, 0>>, <<1, 2>>)

\* the ticks the world is followed for
SmogTicks == 2

InitSmog == InitialGameState(SmogCity, SmogSize)

\* the player builds, clears, floods and drags a road; the ticks run in between
NextSmog ==
  \/ \E buildingType \in SmogBuildings :
       placeBuilding(SmogSpot[1], SmogSpot[2], buildingType, "null")
  \/ \E i \in DOMAIN SmogRoad :
       placeBuilding(SmogRoad[i].x, SmogRoad[i].y, "road", "null")
  \/ bulldozeTile(SmogSpot[1], SmogSpot[2])
  \/ placeWaterTerraform(SmogSpot[1], SmogSpot[2])
  \/ createBridgesOnPath(SmogRoad, "road")
  \/ TicksElapsed < SmogTicks /\ TickBegin
  \/ TickTile
  \/ TickEnd

SpecSmog == InitSmog /\ [][NextSmog]_vars

\* C35: in every state reached from a generated world by placeBuilding and
\* simulateTick calls, every tile's pollution lies in [0, 100].
C35_PollutionBounded ==
  pc = "idle" =>
    \A t \in AllTiles :
      /\ grid[t[2]][t[1]].pollution >= 0
      /\ grid[t[2]][t[1]].pollution <= 10000


---------------------------------------------------------------------------
(* 36. Decay *)

\* what lines 819-829 add to the pollution of a tile in one tick, in hundredths
ProducedBy(tile) ==
  LET bstats == BUILDING_STATS(tile.building.type)
  IN IF bstats.defined /\ bstats.pollution > 0 THEN bstats.pollution * 5 ELSE 0

\* no tile of the input grid is above 30 or is brought there by what it produces,
\* so that the tick diffuses nothing (line 842)
NoDiffusion ==
  \A t \in AllTiles :
    saved.grid[t[2]][t[1]].pollution + ProducedBy(saved.grid[t[2]][t[1]]) <= 3000

\* tile t was polluted before the tick and its building produces no pollution
PollutedIdle(t) ==
  /\ saved.grid[t[2]][t[1]].pollution > 0
  /\ ProducedBy(saved.grid[t[2]][t[1]]) = 0
  /\ ProducedBy(grid[t[2]][t[1]]) = 0

\* C36: in every tick, every tile with pollution > 0 that produces no pollution
\* itself and receives none from a neighbour ends the tick with at most 0.99 times
\* its previous pollution, whatever its building type.
C36_AllPollutionDecays ==
  (TickDone /\ NoDiffusion) =>
    \A t \in AllTiles :
      PollutedIdle(t) =>
        grid[t[2]][t[1]].pollution <= FloorDiv(saved.grid[t[2]][t[1]].pollution * 99, 100)


---------------------------------------------------------------------------
(* 37. getDevelopmentBlockers and the spawn rule of the tick *)

\* getDevelopmentBlockers(state, x, y): the reasons of the entries it returns, in
\* order, and the visited buffer of hasRoadAccess afterwards
getDevelopmentBlockers(g, size, svc, x, y, visited) ==
  IF ~InGrid(x, y, size) THEN [blockers |-> <<"Invalid tile">>, visited |-> visited]
  ELSE IF g[y][x].zone = "none"
    THEN [blockers |-> <<"Not zoned">>, visited |-> visited]
  ELSE IF g[y][x].building.type \notin {"grass", "tree"}
    THEN [blockers |-> <<>>, visited |-> visited]
  ELSE
    LET access == hasRoadAccess(g, x, y, size, 8, visited)
        roadAccess == access.found
        candidate == BuildingList(IF g[y][x].zone \in {"residential", "commercial"}
                                    THEN g[y][x].zone ELSE "industrial")[1]
        wouldBeStarter == isStarterBuilding(x, y, candidate)
        hasPower == svc.power[y][x]
        hasWater == svc.water[y][x]
        candidateSize == getBuildingSize(candidate)
        b1 == IF ~roadAccess THEN <<"No road access">> ELSE <<>>
        b2 == IF ~hasPower /\ ~wouldBeStarter THEN Append(b1, "No power") ELSE b1
        b3 == IF ~hasWater /\ ~wouldBeStarter THEN Append(b2, "No water") ELSE b2
        b4 == IF /\ candidateSize.width > 1 \/ candidateSize.height > 1
                 /\ ~canPlaceMultiTileBuilding(g, x, y, candidateSize.width,
                                               candidateSize.height, size)
                THEN Append(b3, "Footprint blocked") ELSE b3
        hasUtilities == hasPower /\ hasWater
        b5 == IF Len(b4) = 0 /\ roadAccess /\ (hasUtilities \/ wouldBeStarter)
                THEN Append(b4, "Waiting for development") ELSE b4
    IN [blockers |-> b5, visited |-> access.visited]

\* a call of getDevelopmentBlockers(state, x, y)
CallGetDevelopmentBlockers(x, y) ==
  LET r == getDevelopmentBlockers(grid, gridSize, services, x, y, roadAccessVisited)
  IN /\ pc = "idle"
     /\ call' = [op |-> "getDevelopmentBlockers", x |-> x, y |-> y]
     /\ ret' = r.blockers
     /\ roadAccessVisited' = r.visited
     /\ UNCHANGED <<grid, gridSize, clockVars, econVars, services, logVars,
                    disastersEnabled, scanVars, saved, inputNow>>

\* a generated world with a road and a tree beside it
AdviceSize == 4
AdviceCity ==
  [GrassGrid(AdviceSize) EXCEPT ![0][0] = BuiltTile(@, "road", "none"),
                                ![1][0].building = createBuilding("tree"),
                                ![3][0] = BuiltTile(@, "house_small", "residential")]

\* the tiles the player zones and asks about: grass and the tree beside the road,
\* grass away from it, the road, the house, and a place outside the grid
AdviceLots == {<<1, 0>>, <<0, 1>>, <<3, 3>>}
AdviceProbes == AdviceLots \cup {<<0, 0>>, <<0, 3>>, <<2, 2>>, <<4, 0>>}
AdviceZones == {"residential", "industrial"}

\* the ticks the city is followed for
AdviceTicks == 1

InitAdvice == StateWith(AdviceCity, AdviceSize, FALSE, 900, 900,
                        createInitialStats.demand)

\* the player zones the lots, asks about tiles, and lets the ticks run
NextAdvice ==
  \/ /\ TicksElapsed = 0
     /\ \E lot \in AdviceLots, zone \in AdviceZones :
          placeBuilding(lot[1], lot[2], "null", zone)
  \/ \E probe \in AdviceProbes : CallGetDevelopmentBlockers(probe[1], probe[2])
  \/ TicksElapsed < AdviceTicks /\ TickBegin
  \/ TickTile
  \/ TickEnd

SpecAdvice == InitAdvice /\ [][NextAdvice]_vars

\* the last call was getDevelopmentBlockers on a zoned tile of a state whose
\* services match its grid and whose demand for the tile's zone is above -30
AdviceGiven ==
  /\ call.op = "getDevelopmentBlockers"
  /\ InGrid(call.x, call.y, gridSize)
  /\ grid[call.y][call.x].zone # "none"
  /\ services = calculateServiceCoverage(grid, gridSize)
  /\ ZoneDemand(stats.demand, grid[call.y][call.x].zone) > -3000

\* lines 790-804 for tile (x, y) of the state: the tick that starts from it spawns
\* a building there when Math.random() < spawnChance
CanSpawn(x, y) ==
  LET zone == grid[y][x].zone
      candidate == BuildingList(IF zone \in {"residential", "commercial"}
                                  THEN zone ELSE "industrial")[1]
      candidateSize == getBuildingSize(candidate)
  IN /\ zone # "none"
     /\ grid[y][x].building.type = "grass"
     /\ hasRoadAccess(grid, x, y, gridSize, 8, {}).found
     /\ \/ services.power[y][x] /\ services.water[y][x]
        \/ isStarterBuilding(x, y, candidate)
     /\ ZoneDemand(stats.demand, zone) > -3000
     /\ canPlaceMultiTileBuilding(grid, x, y, candidateSize.width,
                                  candidateSize.height, gridSize)

\* C37: getDevelopmentBlockers reports the single entry 'Waiting for development'
\* for a zoned tile only if a building can spawn on the tile in the next tick, and
\* it reports 'No road access', 'No power', 'No water' or 'Footprint blocked' only
\* when the corresponding spawn condition fails.
C37_BlockersAgree ==
  AdviceGiven =>
    LET x == call.x
        y == call.y
        zone == grid[y][x].zone
        candidate == BuildingList(IF zone \in {"residential", "commercial"}
                                    THEN zone ELSE "industrial")[1]
        candidateSize == getBuildingSize(candidate)
        Reports(reason) == \E i \in DOMAIN ret : ret[i] = reason
    IN /\ ret = <<"Waiting for development">> => CanSpawn(x, y)
       /\ Reports("No road access")
            => ~hasRoadAccess(grid, x, y, gridSize, 8, {}).found
       /\ Reports("No power")
            => ~services.power[y][x] /\ ~isStarterBuilding(x, y, candidate)
       /\ Reports("No water")
            => ~services.water[y][x] /\ ~isStarterBuilding(x, y, candidate)
       /\ Reports("Footprint blocked")
            => ~canPlaceMultiTileBuilding(grid, x, y, candidateSize.width,
                                          candidateSize.height, gridSize)


---------------------------------------------------------------------------
(* 38. A successful upgrade *)

\* the anchors of the service buildings of the input grid whose footprint holds the
\* tile of the call
UpgradedAnchors ==
  {a \in AllTiles :
     LET type == saved.grid[a[2]][a[1]].building.type
         size == getBuildingSize(type)
     IN /\ type \in SERVICE_BUILDING_TYPES
        /\ <<call.x, call.y>> \in Footprint(a[1], a[2], size.width, size.height)}

\* C38: a successful upgradeServiceBuilding, invoked on any tile of a service
\* building's footprint, raises the level of exactly that building's anchor by 1,
\* changes no other tile, lowers stats.money by toolCost * 2^oldLevel, returns
\* services recomputed from the new grid and does not mutate the input state; a
\* service building's level stays within 1..5 and stats.money does not become
\* negative through an upgrade.
C38_SuccessfulUpgrade ==
  /\ Upgraded =>
       /\ Cardinality(UpgradedAnchors) = 1
       /\ \A a \in UpgradedAnchors :
            LET old == saved.grid[a[2]][a[1]].building
            IN /\ grid = [saved.grid EXCEPT ![a[2]][a[1]].building.level = old.level + 1]
               /\ stats = [saved.stats EXCEPT
                             !.money = @ - ToolCost(old.type) * Pow2(old.level)]
       /\ services = calculateServiceCoverage(grid, gridSize)
       /\ budget = saved.budget
       /\ inputNow = saved
       /\ stats.money >= 0
  /\ \A t \in AllTiles :
       grid[t[2]][t[1]].building.type \in SERVICE_BUILDING_TYPES
         => grid[t[2]][t[1]].building.level \in 1 .. SERVICE_MAX_LEVEL

\* the fourth upgrade of the hospital, asked for on the last tile of its
\* footprint, brings it to level 5 and leaves 10000 of the 40000
C38_Witness ==
  /\ Upgraded
  /\ call.x = 1 /\ call.y = 1
  /\ saved.grid[1][1].building.type = "empty"
  /\ saved.grid[0][0].building.level = 4
  /\ grid[0][0].building.type = "hospital"
  /\ grid[0][0].building.level = 5
  /\ saved.stats.money = 26000
  /\ stats.money = 10000


---------------------------------------------------------------------------
(* 39. Bulldozing at bridges *)

\* a road over two one-tile water runs in the top row, and a railway over one in
\* the third row
SpanSize == 5
SpanCity ==
  [GrassGrid(SpanSize) EXCEPT ![0][0] = BuiltTile(@, "road", "none"),
                              ![0][1].building = createBuilding("water"),
                              ![0][2] = BuiltTile(@, "road", "none"),
                              ![0][3].building = createBuilding("water"),
                              ![0][4] = BuiltTile(@, "road", "none"),
                              ![2][0] = BuiltTile(@, "rail", "none"),
                              ![2][1].building = createBuilding("water"),
                              ![2][2] = BuiltTile(@, "rail", "none")]

\* the strokes of the player: along the road and along the railway
SpanDrags == {[path |-> DragPath(<<0, 0>>, <<4, 0>>), track |-> "road"],
              [path |-> DragPath(<<0, 2>>, <<2, 2>>), track |-> "rail"]}

InitSpan == InitialGameState(SpanCity, SpanSize)

NextSpan ==
  \/ \E drag \in SpanDrags : createBridgesOnPath(drag.path, drag.track)
  \/ \E t \in AllTiles : bulldozeTile(t[1], t[2])

SpecSpan == InitSpan /\ [][NextSpan]_vars

\* the step along the line a bridge tile's bridge was laid on
AlongBridge(g, t) ==
  IF g[t[2]][t[1]].building.bridgeOrientation = "ns" THEN <<1, 0>> ELSE <<0, 1>>

\* the maximal run of bridge tiles through bridge tile t along the line of its
\* bridge
BridgeRun(g, t) ==
  LET d == AlongBridge(g, t)
      At(k) == <<t[1] + k * d[1], t[2] + k * d[2]>>
      IsBridge(k) == /\ InGrid(At(k)[1], At(k)[2], gridSize)
                     /\ g[At(k)[2]][At(k)[1]].building.type = "bridge"
  IN {At(k) : k \in {j \in (-gridSize) .. gridSize :
                       \A i \in (-gridSize) .. gridSize :
                         ((0 <= i /\ i <= j) \/ (j <= i /\ i <= 0)) => IsBridge(i)}}

\* the tiles of the grid just beyond the two ends of the run of bridge tile t
RunEnds(g, t) ==
  LET d == AlongBridge(g, t)
      run == BridgeRun(g, t)
  IN {u \in AllTiles \ run :
        \E r \in run : \/ u = <<r[1] + d[1], r[2] + d[2]>>
                       \/ u = <<r[1] - d[1], r[2] - d[2]>>}

BridgeTiles(g) == {t \in AllTiles : g[t[2]][t[1]].building.type = "bridge"}

\* the bridge tiles of the input grid whose run the tile of the call terminates
\* as a tile of the run's track type
TerminatedByCall ==
  {t \in BridgeTiles(saved.grid) :
     /\ <<call.x, call.y>> \in RunEnds(saved.grid, t)
     /\ saved.grid[call.y][call.x].building.type
          = saved.grid[t[2]][t[1]].building.bridgeTrackType}

Bulldozed == call.op = "bulldozeTile" /\ InGrid(call.x, call.y, gridSize)

\* after bulldozeTile on a tile of a bridge span every tile of the span is water
SpanRemovedWhole ==
  (Bulldozed /\ <<call.x, call.y>> \in BridgeTiles(saved.grid)) =>
    \A u \in BridgeRun(saved.grid, <<call.x, call.y>>) :
      grid[u[2]][u[1]].building.type = "water"

\* after bulldozeTile on a road or rail tile that terminates bridge spans none of
\* them has a bridge tile left
TerminatedSpansRemoved ==
  (Bulldozed /\ saved.grid[call.y][call.x].building.type \in {"road", "rail"}) =>
    \A t \in TerminatedByCall : grid[t[2]][t[1]].building.type # "bridge"

\* every maximal bridge run has a tile of its track type beyond both of its ends
RunsBounded ==
  \A t \in BridgeTiles(grid) :
    /\ Cardinality(RunEnds(grid, t)) = 2
    /\ \A u \in RunEnds(grid, t) :
         grid[u[2]][u[1]].building.type = grid[t[2]][t[1]].building.bridgeTrackType

\* C39: bulldozing never leaves a broken bridge: after bulldozeTile on a tile of a
\* bridge span every tile of the span is water again, after bulldozeTile on a road
\* or rail tile that terminates bridge spans none of those spans has a bridge tile
\* left, and in every state reached by createBridgesOnPath and bulldozeTile calls
\* every maximal bridge run is bounded at both ends by a tile of its track type.
C39_NoBrokenBridge ==
  /\ SpanRemovedWhole
  /\ TerminatedSpansRemoved
  /\ RunsBounded


---------------------------------------------------------------------------
(* 40. De-zoning unzoned land *)

\* the last call was placeBuilding with zone 'none' on a tile whose zone was 'none'
DezoningUnzoned ==
  /\ Placing
  /\ call.zone = "none"
  /\ saved.grid[call.y][call.x].zone = "none"

\* C40: placeBuilding called with zone = 'none' on a tile whose zone is already
\* 'none' returns the input state unchanged, whatever building stands on the tile
\* (single-tile or any tile of a multi-tile building).
C40_DezoningLeavesUnzoned == DezoningUnzoned => Rejected

=============================================================================
